---------------------------- MODULE Spec2Model ----------------------------
(***************************************************************************)
(* A model of the sanction-detector screening core: the sanctions index    *)
(* (sanctionsDataService.ts), the address screener                         *)
(* (addressScreeningService.ts), the indexer client and the path walker    *)
(* (blockchainApiService.ts) and the audit log (auditLogService.ts).       *)
(*                                                                         *)
(* Time is in milliseconds, as Date.now().  Risk scores are kept in        *)
(* tenths (riskScore10 = 10 * riskScore): the only fractional quantity of  *)
(* the code is 0.6 * riskPropagation with riskPropagation an integer, so   *)
(* every score is a multiple of 0.1, and the IEEE product is exact         *)
(* wherever it meets one of the integer thresholds 26, 51, 76, 100.        *)
(***************************************************************************)
EXTENDS Integers, Sequences, FiniteSets, TLC

(***************************************************************************)
(* Bounds of the model.                                                    *)
(***************************************************************************)
MaxTicks == 1
MaxHopsIn == 2
MaxRequests == 2
MaxBatchLen == 13
MaxWriters == 2
MaxEntries == 3
MaxDays == 2
MaxRateTicks == 3
MaxPending == 2

(***************************************************************************)
(* Program constants.                                                      *)
(***************************************************************************)
SanctionsValidityMs == 1000 * 60 * 60
WalkCacheValidityMs == 1000 * 60 * 30
maxRequestsPerMinute == 60
timeWindow == 60 * 1000
maxConcurrentRequests == 5
defaultMaxHops == 5
batchSize == 10

(***************************************************************************)
(* Small helpers.                                                          *)
(***************************************************************************)
Min(a, b) == IF a <= b THEN a ELSE b
Max(a, b) == IF a >= b THEN a ELSE b
Range(s) == {s[i] : i \in DOMAIN s}
Take(s, n) == SubSeq(s, 1, Min(n, Len(s)))

(***************************************************************************)
(* Addresses.  The universe is symbolic: each name stands for a full       *)
(* address string.  "1S" and "1s" differ only in letter case.              *)
(***************************************************************************)
Addr == {"1T", "1A", "1S", "1s", "1M", "bad"}

\* String.prototype.toLowerCase on the address universe.
ToLower(a) ==
    CASE a = "1T" -> "1t"
      [] a = "1A" -> "1a"
      [] a = "1S" -> "1s"
      [] a = "1M" -> "1m"
      [] OTHER -> a

\* BITCOIN_ADDRESS_REGEX.test(address) on the address universe.
isValidBitcoinAddress(a) ==
    a \in {"1T", "1A", "1S", "1s", "1M", "1c1", "1c2", "1c3", "1c4", "1c5"}

(***************************************************************************)
(* The sanctions source: missing (ENOENT), unreadable/unparsable, or a     *)
(* JSON document whose entities[] rows are                                 *)
(* [entityId, address, isActive].                                          *)
(***************************************************************************)
Row(id, a, act) == [entityId |-> id, address |-> a, isActive |-> act]

SourceRows(src) ==
    CASE src = "F1" -> << Row("E1", "1S", TRUE), Row("E2", "1M", TRUE),
                          Row("E3", "1M", TRUE) >>
      [] src = "F2" -> << Row("E1", "1s", TRUE), Row("E1", "1M", TRUE),
                          Row("E4", "1A", FALSE) >>
      [] src = "F4" -> << Row("E5", "1A", TRUE), Row("E5", "1T", FALSE) >>
      [] src = "F5" -> << Row("E5", "1T", FALSE), Row("E5", "1A", TRUE) >>
      [] OTHER -> << >>

SourceStates == {"missing", "corrupt", "F1", "F2", "F3"}

\* Sources in which one entityId has both active and inactive rows, in
\* either order, next to one whose only inactive row is its own entity.
MixedSources == {"F2", "F4", "F5"}

\* Index of the entity with this id in a sequence of entities, 0 if none
\* (entityMap.has / entityMap.get).
RECURSIVE EntityIndex(_, _, _)
EntityIndex(ents, id, i) ==
    IF i > Len(ents) THEN 0
    ELSE IF ents[i].entityId = id THEN i
    ELSE EntityIndex(ents, id, i + 1)

\* transformOFACCryptoData: rows grouped by entityId in first-occurrence
\* order; the entity keeps the isActive flag of its first row.
RECURSIVE transformOFACCryptoData(_, _)
transformOFACCryptoData(rows, acc) ==
    IF rows = << >> THEN acc
    ELSE LET entry == Head(rows)
             k == EntityIndex(acc, entry.entityId, 1)
         IN  IF k = 0
             THEN transformOFACCryptoData(Tail(rows),
                      Append(acc, [entityId |-> entry.entityId,
                                   listSource |-> "OFAC",
                                   addresses |-> << entry.address >>,
                                   isActive |-> entry.isActive]))
             ELSE IF entry.address \in Range(acc[k].addresses)
             THEN transformOFACCryptoData(Tail(rows), acc)
             ELSE transformOFACCryptoData(Tail(rows),
                      [acc EXCEPT ![k].addresses = Append(@, entry.address)])

IsActiveEntity(e) == e.isActive

\* The variant treats a missing source like any other read error.
loadAllSanctionsMissingThrows(cache, last, t, src) ==
    IF t - last < SanctionsValidityMs /\ Len(cache) > 0
    THEN [cache |-> cache, last |-> last, ok |-> TRUE, read |-> FALSE]
    ELSE IF src \in {"missing", "corrupt"}
    THEN [cache |-> cache, last |-> last, ok |-> FALSE, read |-> TRUE]
    ELSE [cache |-> SelectSeq(transformOFACCryptoData(SourceRows(src), << >>),
                              IsActiveEntity),
          last |-> t, ok |-> TRUE, read |-> TRUE]

\* loadAllSanctions: the new (sanctionsCache, lastLoadTime) and whether the
\* call returned (ok) or threw; read tells whether the source was read.
loadAllSanctions(cache, last, t, src) ==
    IF t - last < SanctionsValidityMs /\ Len(cache) > 0
    THEN [cache |-> cache, last |-> last, ok |-> TRUE, read |-> FALSE]
    ELSE IF src = "missing"
    THEN [cache |-> << >>, last |-> t, ok |-> TRUE, read |-> TRUE]
    ELSE IF src = "corrupt"
    THEN [cache |-> cache, last |-> last, ok |-> FALSE, read |-> TRUE]
    ELSE [cache |-> SelectSeq(transformOFACCryptoData(SourceRows(src), << >>),
                              IsActiveEntity),
          last |-> t, ok |-> TRUE, read |-> TRUE]

\* The variant compares the addresses as stored, without toLowerCase.
findSanctionsByAddressExact(all, address) ==
    LET Hit(e) == address \in Range(e.addresses)
    IN  SelectSeq(all, Hit)

\* findSanctionsByAddress, on the entities getAllSanctions returned.
findSanctionsByAddress(all, address) ==
    LET Hit(e) == \E i \in DOMAIN e.addresses :
                      ToLower(e.addresses[i]) = ToLower(address)
    IN  SelectSeq(all, Hit)

\* The SanctionMatch built from an entity for a queried address.
DirectMatch(e, address) ==
    [listSource |-> e.listSource, entityId |-> e.entityId,
     matchType |-> "DIRECT", confidence |-> 100, matchedAddress |-> address]

\* findDirectSanctionMatches: a load error is caught and yields no match.
findDirectSanctionMatches(ld, address) ==
    IF ld.ok
    THEN LET ents == findSanctionsByAddress(ld.cache, address)
         IN  [i \in 1 .. Len(ents) |-> DirectMatch(ents[i], address)]
    ELSE << >>

(***************************************************************************)
(* Risk model.                                                             *)
(***************************************************************************)
calculateDirectMatchRiskScore(sanctionMatches) ==
    IF Len(sanctionMatches) = 0 THEN 0
    ELSE LET base == 60
             multi == IF Len(sanctionMatches) > 1
                      THEN Min(Len(sanctionMatches) * 5, 20) ELSE 0
             ofac == IF \E i \in DOMAIN sanctionMatches :
                            sanctionMatches[i].listSource = "OFAC"
                     THEN 15 ELSE 0
         IN  Min(base + multi + ofac, 80)

\* determineRiskLevel on a score in tenths.  The variant puts the CRITICAL
\* threshold at 75 instead of 76.
determineRiskLevelFrom75(riskScore10) ==
    IF riskScore10 >= 750 THEN "CRITICAL"
    ELSE IF riskScore10 >= 510 THEN "HIGH"
    ELSE IF riskScore10 >= 260 THEN "MEDIUM"
    ELSE "LOW"

determineRiskLevel(riskScore10) ==
    IF riskScore10 >= 760 THEN "CRITICAL"
    ELSE IF riskScore10 >= 510 THEN "HIGH"
    ELSE IF riskScore10 >= 260 THEN "MEDIUM"
    ELSE "LOW"

\* calculateConfidenceScore; analysis is NoAnalysis when the walk was not
\* requested or failed.
NoAnalysis == [absent |-> TRUE]
HasAnalysis(an) == "absent" \notin DOMAIN an

\* The variant starts from 70 also when there is no match.
calculateConfidenceScoreBase70(sanctionMatches, an) ==
    LET direct == 70 + (IF Len(sanctionMatches) > 1 THEN 10 ELSE 0)
        walk == IF HasAnalysis(an) /\ an.totalNodesAnalyzed > 0
                THEN 15 + (IF an.totalNodesAnalyzed > 10 THEN 5 ELSE 0)
                ELSE 0
    IN  Min(direct + walk, 100)

calculateConfidenceScore(sanctionMatches, an) ==
    LET direct == IF Len(sanctionMatches) > 0
                  THEN 70 + (IF Len(sanctionMatches) > 1 THEN 10 ELSE 0)
                  ELSE 30
        walk == IF HasAnalysis(an) /\ an.totalNodesAnalyzed > 0
                THEN 15 + (IF an.totalNodesAnalyzed > 10 THEN 5 ELSE 0)
                ELSE 0
    IN  Min(direct + walk, 100)


(***************************************************************************)
(* The indexer's data.  A transaction carries the address arrays of its    *)
(* inputs and of its outputs and its block time in seconds (0 when         *)
(* unconfirmed); an address has the list of its recent txids.              *)
(***************************************************************************)
Now0 == 3 * SanctionsValidityMs
TickMs == 20 * 60 * 1000
RecentBlockTime == (Now0 - 10 * 60 * 1000) \div 1000

Tx(id, ins, outs, bt) ==
    [txid |-> id, inputs |-> ins, outputs |-> outs, blockTime |-> bt]


Graphs ==
    << [txs |-> { Tx("x1", << <<"1T">> >>, << <<"1A">> >>, RecentBlockTime),
                  Tx("x2", << <<"1S">>, <<"1M">> >>, << <<"1T">> >>, 0),
                  Tx("x3", << <<"1A">> >>, << <<"1S">>, <<"1T">> >>,
                     RecentBlockTime),
                  \* an older transaction, in no address's recent list
                  Tx("x4", << <<"1S">>, <<"1M">>, <<"1s">> >>,
                     << <<"1T">>, <<"bad">> >>, RecentBlockTime),
                  \* two payments of a sanctioned address among unlisted
                  \* ones (1c1 .. 1c5), with change to the inputs
                  Tx("x5", << <<"1S">>, <<"1c1">>, <<"1c2">>, <<"1c3">>,
                              <<"1c4">> >>,
                     << <<"1c1">>, <<"1c2">>, <<"1c3">>, <<"1c4">>,
                        <<"1c5">> >>, RecentBlockTime),
                  Tx("x6", << <<"1S">>, <<"1c1">>, <<"1c2">>, <<"1c3">>,
                              <<"1c4">> >>,
                     << <<"1c1">>, <<"1c2">>, <<"1c3">>, <<"1c4">> >>,
                     RecentBlockTime) },
        addrTxs |-> [a \in Addr |->
                       CASE a = "1T" -> <<"x1", "x2">>
                         [] a = "1A" -> <<"x1", "x3">>
                         [] a = "1S" -> <<"x3">>
                         [] a = "1M" -> <<"x2">>
                         [] OTHER -> << >>]],
       [txs |-> { Tx("x1", << << >> >>, << <<"1T">>, <<"1s">> >>,
                     RecentBlockTime) },
        addrTxs |-> [a \in Addr |->
                       CASE a = "1T" -> <<"x1">>
                         [] a = "1s" -> <<"x1">>
                         [] OTHER -> << >>]],
       \* an address with more transactions than one batch holds
       [txs |-> { Tx("x1", << <<"1T">> >>, << <<"1A">> >>, RecentBlockTime),
                  Tx("x2", << <<"1T">> >>, << <<"1S">> >>, RecentBlockTime),
                  Tx("x3", << <<"1T">> >>, << <<"1T">> >>, RecentBlockTime),
                  Tx("x4", << <<"1T">> >>, << <<"1T">> >>, RecentBlockTime),
                  Tx("x5", << <<"1T">> >>, << <<"1T">> >>, RecentBlockTime),
                  Tx("x6", << <<"1T">> >>, << <<"1M">> >>, RecentBlockTime),
                  Tx("x7", << <<"1T">> >>, << <<"1T">> >>, RecentBlockTime),
                  Tx("x8", << <<"1A">> >>, << <<"1S">> >>, RecentBlockTime) },
        addrTxs |-> [a \in Addr |->
                       CASE a = "1T" -> <<"x1", "x2", "x3", "x4", "x5", "x6",
                                          "x7">>
                         [] a = "1A" -> <<"x8">>
                         [] OTHER -> << >>]],
       \* a cycle 1T -> 1A -> 1T, an address with more than 10
       \* transactions and a transaction with more than 3 new addresses
       [txs |-> { Tx("x1", << <<"1T">> >>,
                     << <<"1A">>, <<"1S">>, <<"1M">>, <<"1s">> >>,
                     RecentBlockTime),
                  Tx("x12", << <<"1A">> >>, << <<"1T">> >>, RecentBlockTime) }
                \cup { Tx(id, << <<"1T">> >>, << <<"1T">> >>, RecentBlockTime) :
                          id \in {"x2", "x3", "x4", "x5", "x6", "x7", "x8",
                                  "x9", "x10", "x11"} },
        addrTxs |-> [a \in Addr |->
                       CASE a = "1T" -> <<"x1", "x2", "x3", "x4", "x5", "x6",
                                          "x7", "x8", "x9", "x10", "x11">>
                         [] a = "1A" -> <<"x1", "x12">>
                         [] a = "1S" -> <<"x1">>
                         [] a = "1M" -> <<"x1">>
                         [] OTHER -> << >>]] >>

\* The graphs of the general specifications; the last two are kept for
\* the specifications of the batches and of the walk's bounds.
SmallGraphs == {1, 2}

TxOf(g, id) == CHOOSE t \in Graphs[g].txs : t.txid = id

\* Array.from(new Set(...)): the sequence without its repeated elements,
\* first occurrences kept in order.
RECURSIVE Dedup(_, _)
Dedup(s, acc) ==
    IF s = << >> THEN acc
    ELSE IF Head(s) \in Range(acc) THEN Dedup(Tail(s), acc)
    ELSE Dedup(Tail(s), Append(acc, Head(s)))

RECURSIVE Flatten(_)
Flatten(ss) == IF ss = << >> THEN << >> ELSE Head(ss) \o Flatten(Tail(ss))

extractAddressesFromTransaction(tx) ==
    Dedup(Flatten(tx.inputs) \o Flatten(tx.outputs), << >>)

\* The variant returns the array as one chunk, whatever the size asked.
chunkArrayWhole(array, chunkSize) ==
    IF array = << >> THEN << >> ELSE << array >>

\* chunkArray
RECURSIVE chunkArray(_, _)
chunkArray(array, chunkSize) ==
    IF array = << >> THEN << >>
    ELSE << Take(array, chunkSize) >>
         \o chunkArray(SubSeq(array, Min(chunkSize, Len(array)) + 1, Len(array)),
                       chunkSize)

(***************************************************************************)
(* Path walker: pure parts.                                                *)
(***************************************************************************)
\* The variant leaves out the bonus for the number of matches.
calculateRiskContributionNoBonus(hop, matchCount) ==
    Min(100, Max(0, 100 - hop * 20))

calculateRiskContribution(hop, matchCount) ==
    LET hopPenalty == Max(0, 100 - hop * 20)
        matchBonus == Min(50, matchCount * 25)
    IN  Min(100, hopPenalty + matchBonus)

\* The hop weight max(0.1, 1 - 0.15 * hop), in hundredths.
HopWeight100(hop) == Max(10, 100 - 15 * hop)

RECURSIVE TotalWeightedRisk(_)
TotalWeightedRisk(nodes) ==
    IF nodes = << >> THEN 0
    ELSE Head(nodes).riskContribution * HopWeight100(Head(nodes).hop)
         + TotalWeightedRisk(Tail(nodes))

RECURSIVE TotalWeight(_)
TotalWeight(nodes) ==
    IF nodes = << >> THEN 0
    ELSE HopWeight100(Head(nodes).hop) + TotalWeight(Tail(nodes))

\* calculateRiskPropagation: Math.round(x) = floor(x + 1/2).
calculateRiskPropagation(an) ==
    IF Len(an.pathNodes) = 0 THEN 0
    ELSE LET totalWeightedRisk == TotalWeightedRisk(an.pathNodes)
             totalWeight == TotalWeight(an.pathNodes)
             nodePenalty == Min(25, an.sanctionedNodesFound * 5)
         IN  Min(100, (2 * totalWeightedRisk + 2 * nodePenalty * totalWeight
                       + totalWeight) \div (2 * totalWeight))

\* The walker's own sanctions check: entity.addresses.includes(address).
WalkerMatchCount(all, address) ==
    Cardinality({i \in DOMAIN all : address \in Range(all[i].addresses)})

EmptyAnalysis(target, maxHops) ==
    [targetAddress |-> target, maxHops |-> maxHops, totalNodesAnalyzed |-> 0,
     sanctionedNodesFound |-> 0, pathNodes |-> << >>, riskPropagation |-> 0]

\* The address loop of analyzeTransaction; ld is the outcome of
\* getAllSanctions (a throw is caught per address and the address skipped).
RECURSIVE CheckAddresses(_, _, _, _, _, _)
CheckAddresses(an, addresses, tx, hop, visited, ld) ==
    IF addresses = << >> THEN an
    ELSE LET address == Head(addresses)
             n == IF ld.ok THEN WalkerMatchCount(ld.cache, address) ELSE 0
         IN  IF address \in visited \/ n = 0
             THEN CheckAddresses(an, Tail(addresses), tx, hop, visited, ld)
             ELSE CheckAddresses(
                      [an EXCEPT !.sanctionedNodesFound = @ + 1,
                                 !.pathNodes = Append(@,
                                     [address |-> address, txid |-> tx.txid,
                                      hop |-> hop + 1,
                                      timestamp |-> tx.blockTime * 1000,
                                      riskContribution |->
                                          calculateRiskContribution(hop + 1, n)])],
                      Tail(addresses), tx, hop, visited, ld)

\* The variant counts a transaction with sanctioned addresses once, however
\* many path nodes it yields.
analyzeTransactionCountsTx(an, tx, hop, visited, ld) ==
    LET r == CheckAddresses([an EXCEPT !.totalNodesAnalyzed = @ + 1],
                            extractAddressesFromTransaction(tx), tx, hop,
                            visited, ld)
    IN  [r EXCEPT !.sanctionedNodesFound =
                      an.sanctionedNodesFound
                      + (IF Len(r.pathNodes) > Len(an.pathNodes) THEN 1 ELSE 0)]

analyzeTransaction(an, tx, hop, visited, ld) ==
    CheckAddresses([an EXCEPT !.totalNodesAnalyzed = @ + 1],
                   extractAddressesFromTransaction(tx), tx, hop, visited, ld)

\* The cache test of analyzeTransactionPath: the entry is used when the
\* timestamp of its first path node (0 when it has none) is less than
\* cacheValidityMs old.
CacheFresh(cached, t) ==
    LET ts == IF Len(cached.pathNodes) > 0 THEN cached.pathNodes[1].timestamp
              ELSE 0
    IN  t - ts < WalkCacheValidityMs


(***************************************************************************)
(* State.                                                                  *)
(***************************************************************************)
VARIABLES
    now,                 \* Date.now()
    source,              \* the sanctions source file
    graph,               \* which of Graphs the indexer serves
    reqCount,            \* requests started so far
    sanctionsCache,      \* SanctionsDataService.sanctionsCache
    lastLoadTime,        \* SanctionsDataService.lastLoadTime
    spc,                 \* screenAddress: "idle" or "walking"
    req,                 \* the screenAddress call in progress
    result,              \* outcome of the last screenAddress call, once returned
    lastAudit,           \* the audit entry of that call
    wpc,                 \* analyzeTransactionPath: idle/running/done/failed
    analysis,            \* the walk's accumulator
    visitedAddresses,
    visitedTransactions,
    stack,               \* the walk's pending work, innermost first
    inFlight,            \* txids whose getTransaction is outstanding
    analysisCache,       \* TransactionPathAnalysisService.analysisCache
    walkRet,             \* what analyzeTransactionPath returned
    walkInfo,            \* history of the current/last walk
    cachedAt,            \* history: when a walk for the key last completed
    requestCount,        \* BlockchainApiService.requestCount
    lastResetTime,       \* BlockchainApiService.lastResetTime
    pending,             \* indexer requests admitted and not yet answered
    admittedInWindow,    \* history: calls admitted since the last reset
    lastCall,            \* history: the last call of the indexer client
    day,                 \* the current date (UTC day number)
    auditFiles,          \* <<directory day, file day>> -> entries of the file
    writers,             \* the logScreeningAction calls in progress
    nextId,              \* entries created so far + 1
    acked,               \* history: entries whose writeAuditLog returned
    lastQuery,           \* the last getAuditLogsForDate call and what it returned
    bpc,                 \* screenAddressesBatch: idle/running/done
    batch,               \* the screenAddressesBatch call in progress
    bResults,            \* its results array
    tpc,                 \* screenTransaction: idle/fetching/screening/done
    treq,                \* the screenTransaction call in progress
    tResult,             \* what it returned or threw
    lastAccess,          \* the last use of the sanctions index and what it did
    identifier,          \* a string handed to the validators, as its characters
    validation,          \* what the validators and the screener made of it
    httpResponse,        \* the last HTTP request handled and the reply sent
    admittedRecent,      \* history: calls admitted one tick ago and in this tick
    walks,               \* the concurrent analyzeTransactionPath calls
    txBatch              \* the screenTransactionsBatch call in progress

envVars == << now, source, graph, reqCount >>
sancVars == << sanctionsCache, lastLoadTime >>
scrVars == << spc, req, result, lastAudit >>
walkLocals == << analysis, visitedAddresses, visitedTransactions, stack, inFlight >>
walkVars == << wpc, walkLocals, analysisCache, walkRet, walkInfo, cachedAt >>
rateVars == << requestCount, lastResetTime, pending, admittedInWindow, lastCall >>
auditVars == << day, auditFiles, writers, nextId, acked, lastQuery >>
batchVars == << bpc, batch, bResults >>
txVars == << tpc, treq, tResult >>
idxVars == << lastAccess >>
valVars == << identifier, validation >>
httpVars == << httpResponse >>
winVars == << admittedRecent >>
pairVars == << walks >>
tbVars == << txBatch >>
auxVars == << rateVars, auditVars, batchVars, txVars, idxVars, valVars, httpVars, winVars, pairVars, tbVars >>
vars == << envVars, sancVars, scrVars, walkVars, auxVars >>

WalkTargets == {"1T", "1M"}
HopsIn == 0 .. MaxHopsIn
Keys == WalkTargets \X HopsIn

NoReq == [address |-> "none"]
NoResult == [status |-> "none"]
NoAuditEntry == [action |-> "none"]
NoWalkInfo == [key |-> << "none", 0 >>, startedAt |-> 0, priorDoneAt |-> -1,
               fromCache |-> FALSE, requests |-> 0]

InitSanctions ==
    /\ sanctionsCache = << >>
    /\ lastLoadTime = 0

InitScreen ==
    /\ spc = "idle"
    /\ req = NoReq
    /\ result = NoResult
    /\ lastAudit = NoAuditEntry

InitWalk ==
    /\ wpc = "idle"
    /\ analysis = NoAnalysis
    /\ visitedAddresses = {}
    /\ visitedTransactions = {}
    /\ stack = << >>
    /\ inFlight = << >>
    /\ analysisCache = [k \in Keys |-> NoAnalysis]
    /\ walkRet = NoAnalysis
    /\ walkInfo = NoWalkInfo
    /\ cachedAt = [k \in Keys |-> -1]

Days == 1 .. MaxDays
Paths == Days \X Days
Writers == 1 .. MaxWriters
NoCall == [op |-> "none"]
IdleWriter == [pc |-> "idle"]
NoQuery == [date |-> 0]
NoBatch == [addresses |-> << >>]

InitRate ==
    /\ requestCount = 0
    /\ lastResetTime = Now0
    /\ pending = 0
    /\ admittedInWindow = 0
    /\ lastCall = NoCall

InitAudit ==
    /\ day = 1
    /\ auditFiles = [p \in Paths |-> << >>]
    /\ writers = [w \in Writers |-> IdleWriter]
    /\ nextId = 1
    /\ acked = {}
    /\ lastQuery = NoQuery

InitBatch ==
    /\ bpc = "idle"
    /\ batch = NoBatch
    /\ bResults = << >>

NoTxReq == [txHash |-> "none"]
NoTxResult == [status |-> "none"]

NoAccess == [kind |-> "none"]

InitIdx == lastAccess = NoAccess

NoValidation == [op |-> "none"]

NoResponse == [route |-> "none"]

InitHttp == httpResponse = NoResponse
Walkers == {1, 2}
IdleWalk == [pc |-> "idle"]
InitWin == admittedRecent = << 0, 0 >>
InitPair == walks = [w \in Walkers |-> IdleWalk]
NoTxBatch == [pc |-> "idle"]
InitTxBatch == txBatch = NoTxBatch

InitVal ==
    /\ identifier = << >>
    /\ validation = NoValidation

InitTx ==
    /\ tpc = "idle"
    /\ treq = NoTxReq
    /\ tResult = NoTxResult

Init ==
    /\ now = Now0
    /\ source \in SourceStates
    /\ graph \in SmallGraphs
    /\ reqCount = 0
    /\ InitSanctions
    /\ InitScreen
    /\ InitWalk
    /\ InitRate
    /\ InitAudit
    /\ InitBatch
    /\ InitTx
    /\ InitIdx
    /\ InitVal
    /\ InitHttp /\ InitWin /\ InitPair /\ InitTxBatch

(***************************************************************************)
(* screenAddress.                                                          *)
(***************************************************************************)
\* The ScreeningResult built at the end of screenAddress from the direct
\* matches and the walk's analysis (NoAnalysis when there is none).
ScreeningResult(address, sanctionMatches, an) ==
    LET direct10 == 10 * calculateDirectMatchRiskScore(sanctionMatches)
        indirect10 == IF HasAnalysis(an) THEN 6 * an.riskPropagation ELSE 0
        riskScore10 == Min(direct10 + indirect10, 1000)
    IN  [status |-> "ok", address |-> address, riskScore10 |-> riskScore10,
         riskLevel |-> determineRiskLevel(riskScore10),
         sanctionMatches |-> sanctionMatches,
         confidence |-> calculateConfidenceScore(sanctionMatches, an),
         transactionAnalysis |-> an]

\* What can happen to writeAuditLog: it succeeds, or it throws at the
\* directory creation, at the read of the day file (an error other than
\* ENOENT), at JSON.parse of its content, or at the write.
AuditIo == {"ok", "mkdir", "read", "parse", "write"}

\* The variant does not catch what writeAuditLog throws.
logScreeningActionRethrows(io) ==
    [threw |-> io # "ok", written |-> io = "ok"]

\* logScreeningAction when writeAuditLog ends as io: the catch block logs
\* the error and the call returns.
logScreeningAction(io) ==
    [threw |-> FALSE, written |-> io = "ok"]

\* logAddressScreening of a completed / failed screening; written tells
\* whether writeAuditLog succeeded.
SuccessAudit(r, written) ==
    [action |-> "ADDRESS_SCREENING", address |-> r.address,
     result |-> [riskScore10 |-> r.riskScore10, riskLevel |-> r.riskLevel,
                 sanctionMatchCount |-> Len(r.sanctionMatches)],
     success |-> TRUE, written |-> written]

FailureAudit(address, written) ==
    [action |-> "ADDRESS_SCREENING", address |-> address,
     result |-> [error |-> "Invalid Bitcoin address"],
     success |-> FALSE, written |-> written]

\* An invalid address: the call throws a plain Error ("ERROR", no
\* ValidationError) after writing a failure entry.
ScreenAddressInvalid(address, includeWalk, maxHops) ==
    /\ spc = "idle"
    /\ reqCount < MaxRequests
    /\ ~isValidBitcoinAddress(address)
    /\ reqCount' = reqCount + 1
    /\ result' = [status |-> "error", address |-> address,
                  includeWalk |-> includeWalk, walkFailed |-> FALSE,
                  kind |-> "ERROR"]
    /\ \E io \in AuditIo :
          lastAudit' = FailureAudit(address, logScreeningAction(io).written)
    /\ UNCHANGED auxVars
    /\ UNCHANGED << now, source, graph, sancVars, spc, req, walkVars >>

\* includeTransactionAnalysis = false: the whole call.
ScreenAddressDirect(address, maxHops) ==
    /\ spc = "idle"
    /\ reqCount < MaxRequests
    /\ isValidBitcoinAddress(address)
    /\ reqCount' = reqCount + 1
    /\ LET ld == loadAllSanctions(sanctionsCache, lastLoadTime, now, source)
           r == ScreeningResult(address, findDirectSanctionMatches(ld, address),
                                NoAnalysis)
       IN  /\ sanctionsCache' = ld.cache
           /\ lastLoadTime' = ld.last
           /\ \E io \in AuditIo :
                 LET lg == logScreeningAction(io)
                 IN  IF lg.threw
                     THEN \* the catch block of screenAddress: a failure
                          \* entry is attempted and the error rethrown
                          /\ result' = [status |-> "error", address |-> address,
                                        includeWalk |-> FALSE,
                                        walkFailed |-> FALSE]
                          /\ lastAudit' = FailureAudit(address, FALSE)
                     ELSE /\ result' = r @@
                                 [includeWalk |-> FALSE, loadOk |-> ld.ok,
                                  index |-> ld.cache, walkFailed |-> FALSE]
                          /\ lastAudit' = SuccessAudit(r, lg.written)
    /\ UNCHANGED auxVars
    /\ UNCHANGED << now, source, graph, spc, req, walkVars >>


(***************************************************************************)
(* The path walker.  The recursion of analyzeHop is kept as a stack of     *)
(* pending work: "hop" is a call of analyzeHop, "batch" one of its         *)
(* batches, "await" the Promise.all of a batch, "tx" the body of the loop  *)
(* over the fetched transactions, "addr" one round of the loop over        *)
(* nextHopAddresses.                                                       *)
(***************************************************************************)
Task(kind, ids, x, hop) == [kind |-> kind, ids |-> ids, x |-> x, hop |-> hop]

Top == Head(stack)
Running(kind) == wpc = "running" /\ stack # << >> /\ Top.kind = kind
CountRequests(n) == walkInfo' = [walkInfo EXCEPT !.requests = @ + n]

\* getAddressTransactions(address, limit) when the indexer answers.
getAddressTransactions(address, limit) ==
    Take(Graphs[graph].addrTxs[address], limit)

\* includeTransactionAnalysis = true, up to the first suspension of
\* analyzeTransactionPath: validation, direct matches, the cache test and
\* the request for the target's transactions.
ScreenAddressWalkBegin(address, maxHops) ==
    /\ spc = "idle"
    /\ reqCount < MaxRequests
    /\ isValidBitcoinAddress(address)
    /\ << address, maxHops >> \in Keys
    /\ reqCount' = reqCount + 1
    /\ spc' = "walking"
    /\ LET ld == loadAllSanctions(sanctionsCache, lastLoadTime, now, source)
           key == << address, maxHops >>
           cached == analysisCache[key]
           hit == HasAnalysis(cached) /\ CacheFresh(cached, now)
       IN  /\ sanctionsCache' = ld.cache
           /\ lastLoadTime' = ld.last
           /\ req' = [address |-> address, maxHops |-> maxHops,
                      sanctionMatches |-> findDirectSanctionMatches(ld, address),
                      loadOk |-> ld.ok, index |-> ld.cache]
           /\ walkInfo' = [key |-> key, startedAt |-> now,
                           priorDoneAt |-> cachedAt[key], fromCache |-> hit,
                           requests |-> IF hit THEN 0 ELSE 1]
           /\ IF hit
              THEN /\ wpc' = "done"
                   /\ walkRet' = cached
                   /\ UNCHANGED << analysis, analysisCache >>
              ELSE /\ wpc' = "seeding"
                   /\ walkRet' = NoAnalysis
                   \* a stale entry is deleted (analysisCache.delete)
                   /\ analysisCache' = [analysisCache EXCEPT ![key] = NoAnalysis]
                   /\ analysis' = EmptyAnalysis(address, maxHops)
    /\ result' = NoResult
    /\ lastAudit' = NoAuditEntry
    /\ UNCHANGED auxVars
    /\ UNCHANGED << now, source, graph, visitedAddresses, visitedTransactions,
                    stack, inFlight, cachedAt >>

\* The target's transaction list arrives: analyzeHop(target, txids, 0).
WalkSeedOk ==
    /\ wpc = "seeding"
    /\ wpc' = "running"
    /\ visitedAddresses' = {req.address}
    /\ visitedTransactions' = {}
    /\ stack' = << Task("hop", getAddressTransactions(req.address, 25),
                        req.address, 0) >>
    /\ UNCHANGED auxVars
    /\ UNCHANGED << envVars, sancVars, scrVars, analysis, inFlight, analysisCache,
                    walkRet, walkInfo, cachedAt >>

\* The request for the target's transactions fails (transport error or
\* rate limit): analyzeTransactionPath throws.
WalkSeedFail ==
    /\ wpc = "seeding"
    /\ wpc' = "failed"
    /\ UNCHANGED auxVars
    /\ UNCHANGED << envVars, sancVars, scrVars, walkLocals, analysisCache,
                    walkRet, walkInfo, cachedAt >>

\* The variant tests currentHop > maxHops at the entry of analyzeHop.
WalkHopGuardAbove ==
    /\ Running("hop")
    /\ LET ids == Top.ids
           hop == Top.hop
       IN  IF hop > req.maxHops \/ Len(ids) = 0
           THEN stack' = Tail(stack)
           ELSE LET size == Min(maxConcurrentRequests, Len(ids))
                    batches == chunkArray(Take(ids, 10), size)
                IN  stack' = [i \in 1 .. Len(batches) |->
                                 Task("batch", batches[i], Top.x, hop)]
                             \o Tail(stack)
    /\ UNCHANGED auxVars
    /\ UNCHANGED << envVars, sancVars, scrVars, wpc, analysis, visitedAddresses,
                    visitedTransactions, inFlight, analysisCache, walkRet,
                    walkInfo, cachedAt >>

\* The variant hands every txid to the batches, without slice(0, 10).
WalkHopNoLimit ==
    /\ Running("hop")
    /\ LET ids == Top.ids
           hop == Top.hop
       IN  IF hop >= req.maxHops \/ Len(ids) = 0
           THEN stack' = Tail(stack)
           ELSE LET size == Min(maxConcurrentRequests, Len(ids))
                    batches == chunkArray(ids, size)
                IN  stack' = [i \in 1 .. Len(batches) |->
                                 Task("batch", batches[i], Top.x, hop)]
                             \o Tail(stack)
    /\ UNCHANGED auxVars
    /\ UNCHANGED << envVars, sancVars, scrVars, wpc, analysis, visitedAddresses,
                    visitedTransactions, inFlight, analysisCache, walkRet,
                    walkInfo, cachedAt >>

\* Entry of analyzeHop: the guard, then the batches of the first 10 txids.
WalkHop ==
    /\ Running("hop")
    /\ LET ids == Top.ids
           hop == Top.hop
       IN  IF hop >= req.maxHops \/ Len(ids) = 0
           THEN stack' = Tail(stack)
           ELSE LET size == Min(maxConcurrentRequests, Len(ids))
                    batches == chunkArray(Take(ids, 10), size)
                IN  stack' = [i \in 1 .. Len(batches) |->
                                 Task("batch", batches[i], Top.x, hop)]
                             \o Tail(stack)
    /\ UNCHANGED auxVars
    /\ UNCHANGED << envVars, sancVars, scrVars, wpc, analysis, visitedAddresses,
                    visitedTransactions, inFlight, analysisCache, walkRet,
                    walkInfo, cachedAt >>

\* A batch starts: the txids not yet visited are marked and requested.
WalkBatch ==
    /\ Running("batch")
    /\ LET Fresh(id) == id \notin visitedTransactions
           toFetch == SelectSeq(Top.ids, Fresh)
       IN  /\ visitedTransactions' = visitedTransactions \cup Range(toFetch)
           /\ inFlight' = toFetch
           /\ stack' = << Task("await", toFetch, Top.x, Top.hop) >> \o Tail(stack)
           /\ CountRequests(Len(toFetch))
    /\ UNCHANGED auxVars
    /\ UNCHANGED << envVars, sancVars, scrVars, wpc, analysis, visitedAddresses,
                    analysisCache, walkRet, cachedAt >>

\* The variant lets one failed fetch reject the Promise.all of its batch.
WalkAwaitFailAborts ==
    /\ Running("await")
    /\ \E failed \in SUBSET Range(Top.ids) :
          LET Valid(id) == id \notin failed
              valid == SelectSeq(Top.ids, Valid)
          IN  IF failed # {}
              THEN wpc' = "failed" /\ stack' = stack
              ELSE /\ wpc' = wpc
                   /\ stack' = [i \in 1 .. Len(valid) |->
                                    Task("tx", << >>, valid[i], Top.hop)]
                                \o Tail(stack)
    /\ inFlight' = << >>
    /\ UNCHANGED auxVars
    /\ UNCHANGED << envVars, sancVars, scrVars, analysis, visitedAddresses,
                    visitedTransactions, analysisCache, walkRet, walkInfo,
                    cachedAt >>

\* Promise.all of a batch settles: the fetches in failed are dropped.
WalkAwait ==
    /\ Running("await")
    /\ \E failed \in SUBSET Range(Top.ids) :
          LET Valid(id) == id \notin failed
              valid == SelectSeq(Top.ids, Valid)
          IN  stack' = [i \in 1 .. Len(valid) |->
                           Task("tx", << >>, valid[i], Top.hop)]
                       \o Tail(stack)
    /\ inFlight' = << >>
    /\ UNCHANGED auxVars
    /\ UNCHANGED << envVars, sancVars, scrVars, wpc, analysis, visitedAddresses,
                    visitedTransactions, analysisCache, walkRet, walkInfo,
                    cachedAt >>

\* One fetched transaction: analyzeTransaction, then the choice of the
\* next-hop addresses.
WalkTx ==
    /\ Running("tx")
    /\ LET tx == TxOf(graph, Top.x)
           hop == Top.hop
           addresses == extractAddressesFromTransaction(tx)
           Unvisited(a) == a \notin visitedAddresses
           connected == SelectSeq(addresses, Unvisited)
           ld == IF connected = << >>
                 THEN [cache |-> sanctionsCache, last |-> lastLoadTime,
                       ok |-> TRUE, read |-> FALSE]
                 ELSE loadAllSanctions(sanctionsCache, lastLoadTime, now, source)
           next == Take(connected, 3)
       IN  /\ analysis' = analyzeTransaction(analysis, tx, hop, visitedAddresses, ld)
           /\ sanctionsCache' = ld.cache
           /\ lastLoadTime' = ld.last
           /\ stack' = IF hop + 1 < req.maxHops
                       THEN [i \in 1 .. Len(next) |->
                                Task("addr", << >>, next[i], hop + 1)]
                            \o Tail(stack)
                       ELSE Tail(stack)
    /\ UNCHANGED auxVars
    /\ UNCHANGED << envVars, scrVars, wpc, visitedAddresses, visitedTransactions,
                    inFlight, analysisCache, walkRet, walkInfo, cachedAt >>

\* One next-hop address whose transaction list arrives: recursion.
WalkAddrOk ==
    /\ Running("addr")
    /\ visitedAddresses' = visitedAddresses \cup {Top.x}
    /\ stack' = << Task("hop", getAddressTransactions(Top.x, 5), Top.x, Top.hop) >>
                \o Tail(stack)
    /\ CountRequests(1)
    /\ UNCHANGED auxVars
    /\ UNCHANGED << envVars, sancVars, scrVars, wpc, analysis, visitedTransactions,
                    inFlight, analysisCache, walkRet, cachedAt >>

\* The variant lets the failure of a next-hop request abort the walk.
WalkAddrFailAborts ==
    /\ Running("addr")
    /\ visitedAddresses' = visitedAddresses \cup {Top.x}
    /\ wpc' = "failed"
    /\ CountRequests(1)
    /\ UNCHANGED auxVars
    /\ UNCHANGED << envVars, sancVars, scrVars, analysis, visitedTransactions,
                    stack, inFlight, analysisCache, walkRet, cachedAt >>

\* One next-hop address whose request fails: logged and skipped.
WalkAddrFail ==
    /\ Running("addr")
    /\ visitedAddresses' = visitedAddresses \cup {Top.x}
    /\ stack' = Tail(stack)
    /\ CountRequests(1)
    /\ UNCHANGED auxVars
    /\ UNCHANGED << envVars, sancVars, scrVars, wpc, analysis, visitedTransactions,
                    inFlight, analysisCache, walkRet, cachedAt >>

\* analyzeHop(target, ..., 0) has returned: risk propagation, cache, return.
WalkReturn ==
    /\ wpc = "running"
    /\ stack = << >>
    /\ wpc' = "done"
    /\ LET final == [analysis EXCEPT
                        !.riskPropagation = calculateRiskPropagation(analysis)]
           key == << req.address, req.maxHops >>
       IN  /\ analysis' = final
           /\ walkRet' = final
           /\ analysisCache' = [analysisCache EXCEPT ![key] = final]
           /\ cachedAt' = [cachedAt EXCEPT ![key] = now]
    /\ UNCHANGED auxVars
    /\ UNCHANGED << envVars, sancVars, scrVars, visitedAddresses,
                    visitedTransactions, stack, inFlight, walkInfo >>

\* The variant lets a failure of the walk escape: screenAddress throws.
ScreenAddressWalkEndRethrow ==
    /\ spc = "walking"
    /\ wpc \in {"done", "failed"}
    /\ LET an == IF wpc = "done" THEN walkRet ELSE NoAnalysis
           r == ScreeningResult(req.address, req.sanctionMatches, an)
       IN  IF wpc = "failed"
           THEN /\ result' = [status |-> "error", address |-> req.address,
                              includeWalk |-> TRUE, walkFailed |-> TRUE]
                /\ \E io \in AuditIo :
                       lastAudit' = FailureAudit(req.address,
                                                 logScreeningAction(io).written)
           ELSE /\ result' = r @@ [includeWalk |-> TRUE, loadOk |-> req.loadOk,
                                   index |-> req.index, walkFailed |-> FALSE]
                /\ \E io \in AuditIo :
                       lastAudit' = SuccessAudit(r, logScreeningAction(io).written)
    /\ spc' = "idle"
    /\ req' = NoReq
    /\ wpc' = "idle"
    /\ analysis' = NoAnalysis
    /\ visitedAddresses' = {}
    /\ visitedTransactions' = {}
    /\ stack' = << >>
    /\ inFlight' = << >>
    /\ UNCHANGED auxVars
    /\ UNCHANGED << envVars, sancVars, analysisCache, walkRet, walkInfo, cachedAt >>

\* The walk has returned or thrown: the rest of screenAddress.
ScreenAddressWalkEnd ==
    /\ spc = "walking"
    /\ wpc \in {"done", "failed"}
    /\ LET an == IF wpc = "done" THEN walkRet ELSE NoAnalysis
           r == ScreeningResult(req.address, req.sanctionMatches, an)
       IN  \E io \in AuditIo :
              LET lg == logScreeningAction(io)
              IN  IF lg.threw
                  THEN /\ result' = [status |-> "error", address |-> req.address,
                                     includeWalk |-> TRUE,
                                     walkFailed |-> wpc = "failed"]
                       /\ lastAudit' = FailureAudit(req.address, FALSE)
                  ELSE /\ result' = r @@
                              [includeWalk |-> TRUE, loadOk |-> req.loadOk,
                               index |-> req.index, walkFailed |-> wpc = "failed"]
                       /\ lastAudit' = SuccessAudit(r, lg.written)
    /\ spc' = "idle"
    /\ req' = NoReq
    /\ wpc' = "idle"
    /\ analysis' = NoAnalysis
    /\ visitedAddresses' = {}
    /\ visitedTransactions' = {}
    /\ stack' = << >>
    /\ inFlight' = << >>
    /\ UNCHANGED auxVars
    /\ UNCHANGED << envVars, sancVars, analysisCache, walkRet, walkInfo, cachedAt >>

\* Time passes.
Tick ==
    /\ now < Now0 + MaxTicks * TickMs
    /\ now' = now + TickMs
    /\ UNCHANGED auxVars
    /\ UNCHANGED << source, graph, reqCount, sancVars, scrVars, walkVars >>

Next ==
    \/ \E a \in Addr, w \in BOOLEAN, h \in HopsIn : ScreenAddressInvalid(a, w, h)
    \/ \E a \in Addr, h \in HopsIn : ScreenAddressDirect(a, h)
    \/ \E a \in Addr, h \in HopsIn : ScreenAddressWalkBegin(a, h)
    \/ WalkSeedOk
    \/ WalkSeedFail
    \/ WalkHop
    \/ WalkBatch
    \/ WalkAwait
    \/ WalkTx
    \/ WalkAddrOk
    \/ WalkAddrFail
    \/ WalkReturn
    \/ ScreenAddressWalkEnd
    \/ Tick

Spec == Init /\ [][Next]_vars

\* The walker alone, from an address with seven transactions: the seed
\* request, two batches (five and two fetches) and one deeper hop.
InitBurstSpec ==
    /\ now = Now0
    /\ source = "F1"
    /\ graph = Len(Graphs) - 1
    /\ reqCount = 0
    /\ InitSanctions /\ InitScreen /\ InitWalk
    /\ InitRate /\ InitAudit /\ InitBatch /\ InitTx /\ InitIdx /\ InitVal
    /\ InitHttp /\ InitWin /\ InitPair /\ InitTxBatch

NextBurst ==
    \/ \E a \in Addr, h \in HopsIn : ScreenAddressWalkBegin(a, h)
    \/ WalkSeedOk
    \/ WalkSeedFail
    \/ WalkHop
    \/ WalkBatch
    \/ WalkAwait
    \/ WalkTx
    \/ WalkAddrOk
    \/ WalkAddrFail
    \/ WalkReturn
    \/ ScreenAddressWalkEnd

SpecBurst == InitBurstSpec /\ [][NextBurst]_vars

(***************************************************************************)
(* The walker on the widest graph, under fairness.  An awaited indexer     *)
(* call settles (the premise that every call returns or fails), and the    *)
(* synchronous stretches between two awaits run to their end, so every     *)
(* enabled step of a walk is eventually taken.                             *)
(***************************************************************************)
InitWideSpec ==
    /\ now = Now0
    /\ source = "F1"
    /\ graph = Len(Graphs)
    /\ reqCount = 0
    /\ InitSanctions /\ InitScreen /\ InitWalk
    /\ InitRate /\ InitAudit /\ InitBatch /\ InitTx /\ InitIdx /\ InitVal
    /\ InitHttp /\ InitWin /\ InitPair /\ InitTxBatch

WalkStep ==
    \/ WalkSeedOk
    \/ WalkSeedFail
    \/ WalkHop
    \/ WalkBatch
    \/ WalkAwait
    \/ WalkTx
    \/ WalkAddrOk
    \/ WalkAddrFail
    \/ WalkReturn

NextWide ==
    \/ \E a \in WalkTargets, h \in HopsIn : ScreenAddressWalkBegin(a, h)
    \/ WalkSeedOk
    \/ WalkSeedFail
    \/ WalkHop
    \/ WalkBatch
    \/ WalkAwait
    \/ WalkTx
    \/ WalkAddrOk
    \/ WalkAddrFail
    \/ WalkReturn
    \/ ScreenAddressWalkEnd

SpecWide == InitWideSpec /\ [][NextWide]_vars /\ WF_vars(WalkStep)

\* screenAddress without the walker: the calls with
\* includeTransactionAnalysis = false, and the rejected ones.
NextDirect ==
    \/ \E a \in Addr, w \in BOOLEAN, h \in HopsIn : ScreenAddressInvalid(a, w, h)
    \/ \E a \in Addr, h \in HopsIn : ScreenAddressDirect(a, h)
    \/ Tick

SpecDirect == Init /\ [][NextDirect]_vars

(***************************************************************************)
(* The indexer client's rate limit (BlockchainApiService).  Node runs one  *)
(* callback at a time: checkRateLimit is synchronous, so a call's check    *)
(* and increment are one step, and the calls of concurrent requests        *)
(* interleave between them, around the awaited indexer replies.            *)
(***************************************************************************)
RateTickMs == 30 * 1000
IndexerOps == {"getTransaction", "getAddressInfo", "getAddressTransactions"}

\* checkRateLimit with `>' for `>=' in the cap test.
checkRateLimitAboveCap(count, last, t) ==
    LET elapsed == t - last > timeWindow
        c0 == IF elapsed THEN 0 ELSE count
        l0 == IF elapsed THEN t ELSE last
    IN  IF c0 > maxRequestsPerMinute
        THEN [count |-> c0, last |-> l0, ok |-> FALSE, reset |-> elapsed,
              details |-> {"requestCount", "limit"}]
        ELSE [count |-> c0 + 1, last |-> l0, ok |-> TRUE, reset |-> elapsed,
              details |-> {}]

\* checkRateLimit on (requestCount, lastResetTime) at time t: the fields
\* after the call, whether it returned, and the details of what it threw.
checkRateLimit(count, last, t) ==
    LET elapsed == t - last > timeWindow
        c0 == IF elapsed THEN 0 ELSE count
        l0 == IF elapsed THEN t ELSE last
    IN  IF c0 >= maxRequestsPerMinute
        THEN [count |-> c0, last |-> l0, ok |-> FALSE, reset |-> elapsed,
              details |-> {"requestCount", "limit"}]
        ELSE [count |-> c0 + 1, last |-> l0, ok |-> TRUE, reset |-> elapsed,
              details |-> {}]

\* The details of the ExternalApiError the catch block of an operation
\* builds, whatever was thrown inside the try.
RewrappedDetails(op) ==
    IF op = "getTransaction" THEN {"txid", "service"} ELSE {"address", "service"}

\* getTransaction / getAddressInfo / getAddressTransactions up to the await
\* of the indexer: the rate check, and either the request goes out or the
\* catch block rethrows the rate-limit error as a new ExternalApiError.
rateLimitedCall(op) ==
    /\ pending < MaxPending
    /\ LET rl == checkRateLimit(requestCount, lastResetTime, now)
       IN  /\ requestCount' = rl.count
           /\ lastResetTime' = rl.last
           /\ pending' = IF rl.ok THEN pending + 1 ELSE pending
           /\ admittedInWindow' = (IF rl.reset THEN 0 ELSE admittedInWindow)
                                  + (IF rl.ok THEN 1 ELSE 0)
           /\ lastCall' = [op |-> op,
                           countBefore |-> requestCount,
                           windowElapsed |-> rl.reset,
                           contacted |-> rl.ok,
                           countAfter |-> rl.count,
                           error |-> IF rl.ok THEN "none" ELSE "EXTERNAL_API",
                           thrownDetails |-> rl.details,
                           details |-> IF rl.ok THEN {} ELSE RewrappedDetails(op)]

IndexerCall(op) ==
    /\ rateLimitedCall(op)
    /\ UNCHANGED << envVars, sancVars, scrVars, walkVars, txVars, idxVars, valVars, httpVars, winVars, pairVars, tbVars, auditVars, batchVars >>

\* The indexer answers one outstanding request, with data or with a
\* transport error (which the catch block also rethrows as EXTERNAL_API).
IndexerReply ==
    /\ pending > 0
    /\ pending' = pending - 1
    /\ UNCHANGED << requestCount, lastResetTime, admittedInWindow, lastCall >>
    /\ UNCHANGED << envVars, sancVars, scrVars, walkVars, txVars, idxVars, valVars, httpVars, winVars, pairVars, tbVars, auditVars, batchVars >>

RateTick ==
    /\ now < Now0 + MaxRateTicks * RateTickMs
    /\ now' = now + RateTickMs
    /\ UNCHANGED << source, graph, reqCount, sancVars, scrVars, walkVars, auxVars >>

InitOthers ==
    /\ now = Now0
    /\ source = "missing"
    /\ graph = 1
    /\ reqCount = 0
    /\ InitSanctions
    /\ InitScreen
    /\ InitWalk

InitRateSpec == InitOthers /\ InitRate /\ InitAudit /\ InitBatch /\ InitTx /\ InitIdx /\ InitVal /\ InitHttp /\ InitWin /\ InitPair /\ InitTxBatch

NextRate ==
    \/ \E op \in IndexerOps : IndexerCall(op)
    \/ IndexerReply
    \/ RateTick

SpecRate == InitRateSpec /\ [][NextRate]_vars

(***************************************************************************)
(* The same client with a record of when calls were admitted: time moves   *)
(* in ticks of RateTickMs, and admittedRecent holds the number of calls    *)
(* admitted during the previous tick and during the current one.           *)
(***************************************************************************)
TimedIndexerCall(op) ==
    /\ rateLimitedCall(op)
    /\ admittedRecent' =
          IF checkRateLimit(requestCount, lastResetTime, now).ok
          THEN << admittedRecent[1], admittedRecent[2] + 1 >>
          ELSE admittedRecent
    /\ UNCHANGED << envVars, sancVars, scrVars, walkVars, txVars, idxVars, valVars, httpVars, pairVars, tbVars, auditVars, batchVars >>

TimedIndexerReply ==
    /\ pending > 0
    /\ pending' = pending - 1
    /\ UNCHANGED << requestCount, lastResetTime, admittedInWindow, lastCall >>
    /\ UNCHANGED << envVars, sancVars, scrVars, walkVars, txVars, idxVars, valVars, httpVars, winVars, pairVars, tbVars, auditVars, batchVars >>

WindowTick ==
    /\ now < Now0 + MaxRateTicks * RateTickMs
    /\ now' = now + RateTickMs
    /\ admittedRecent' = << admittedRecent[2], 0 >>
    /\ UNCHANGED << source, graph, reqCount, sancVars, scrVars, walkVars, rateVars,
                    auditVars, batchVars, txVars, idxVars, valVars, httpVars,
                    pairVars, tbVars >>

InitWindowSpec == InitRateSpec

NextWindow ==
    \/ \E op \in IndexerOps : TimedIndexerCall(op)
    \/ TimedIndexerReply
    \/ WindowTick

SpecWindow == InitWindowSpec /\ [][NextWindow]_vars

(***************************************************************************)
(* Two analyzeTransactionPath calls for the same key running at the same   *)
(* time.  Each call has its own analysis, visited sets and pending work;   *)
(* the walk cache, the sanctions index and the rate limiter are shared.    *)
(* A request is refused when checkRateLimit throws, and an admitted        *)
(* request may still fail in transport.                                    *)
(***************************************************************************)
PairKey == << "1T", 2 >>

\* n consecutive calls of checkRateLimit at time t: the fields after them
\* and how many of the calls returned.
RECURSIVE checkRateLimitTimes(_, _, _, _, _)
checkRateLimitTimes(count, last, t, n, admitted) ==
    IF n = 0 THEN [count |-> count, last |-> last, admitted |-> admitted]
    ELSE LET rl == checkRateLimit(count, last, t)
         IN  checkRateLimitTimes(rl.count, rl.last, t, n - 1,
                                 admitted + (IF rl.ok THEN 1 ELSE 0))

PTop(w) == Head(walks[w].stack)
PairRunning(w, kind) ==
    /\ walks[w].pc = "running"
    /\ walks[w].stack # << >>
    /\ PTop(w).kind = kind

PairLocalOnly ==
    UNCHANGED << envVars, sancVars, scrVars, walkVars, rateVars, auditVars,
                 batchVars, txVars, idxVars, valVars, httpVars, winVars,
                 tbVars >>

PairUnchangedOthers ==
    UNCHANGED << envVars, scrVars, wpc, walkLocals, walkRet, walkInfo, cachedAt,
                 pending, admittedInWindow, lastCall, auditVars, batchVars,
                 txVars, idxVars, valVars, httpVars, winVars, tbVars >>

\* analyzeTransactionPath up to its first suspension: the cache test and
\* the request for the target's transactions.
PairBegin(w) ==
    /\ walks[w].pc = "idle"
    /\ LET cached == analysisCache[PairKey]
           hit == HasAnalysis(cached) /\ CacheFresh(cached, now)
           rl == checkRateLimit(requestCount, lastResetTime, now)
           overlap == \E v \in Walkers \ {w} :
                          walks[v].pc \in {"seeding", "running"}
           Mark(v) == IF v # w /\ walks[v].pc \in {"seeding", "running"}
                      THEN [walks[v] EXCEPT !.overlapped = TRUE]
                      ELSE walks[v]
       IN  IF hit
           THEN /\ walks' = [walks EXCEPT ![w] =
                                [pc |-> "done", ret |-> cached,
                                 fromCache |-> TRUE, overlapped |-> overlap,
                                 sawFailure |-> FALSE]]
                /\ UNCHANGED << analysisCache, requestCount, lastResetTime >>
           ELSE /\ walks' = [v \in Walkers |->
                                IF v = w
                                THEN [pc |-> "seeding",
                                      analysis |-> EmptyAnalysis(PairKey[1],
                                                                 PairKey[2]),
                                      visitedAddresses |-> {},
                                      visitedTransactions |-> {},
                                      stack |-> << >>,
                                      refused |-> IF rl.ok THEN {}
                                                  ELSE {PairKey[1]},
                                      ret |-> NoAnalysis,
                                      fromCache |-> FALSE,
                                      overlapped |-> overlap,
                                      sawFailure |-> FALSE]
                                ELSE Mark(v)]
                /\ analysisCache' = [analysisCache EXCEPT ![PairKey] = NoAnalysis]
                /\ requestCount' = rl.count
                /\ lastResetTime' = rl.last
    /\ UNCHANGED sancVars
    /\ PairUnchangedOthers

\* The target's transaction list arrives: analyzeHop(target, txids, 0).
PairSeedOk(w) ==
    /\ walks[w].pc = "seeding"
    /\ walks[w].refused = {}
    /\ walks' = [walks EXCEPT
                    ![w].pc = "running",
                    ![w].visitedAddresses = {PairKey[1]},
                    ![w].stack = << Task("hop",
                                         getAddressTransactions(PairKey[1], 25),
                                         PairKey[1], 0) >>]
    /\ PairLocalOnly

\* The request for the target's transactions was refused or fails:
\* analyzeTransactionPath throws.
PairSeedFail(w) ==
    /\ walks[w].pc = "seeding"
    /\ walks' = [walks EXCEPT ![w].pc = "failed", ![w].sawFailure = TRUE]
    /\ PairLocalOnly

\* Entry of analyzeHop.
PairHop(w) ==
    /\ PairRunning(w, "hop")
    /\ LET ids == PTop(w).ids
           hop == PTop(w).hop
           rest == Tail(walks[w].stack)
       IN  IF hop >= PairKey[2] \/ Len(ids) = 0
           THEN walks' = [walks EXCEPT ![w].stack = rest]
           ELSE LET size == Min(maxConcurrentRequests, Len(ids))
                    batches == chunkArray(Take(ids, 10), size)
                IN  walks' = [walks EXCEPT ![w].stack =
                                 [i \in 1 .. Len(batches) |->
                                     Task("batch", batches[i], PTop(w).x, hop)]
                                 \o rest]
    /\ PairLocalOnly

\* A batch starts: each fetch passes the shared rate limiter in turn.
PairBatch(w) ==
    /\ PairRunning(w, "batch")
    /\ LET Fresh(id) == id \notin walks[w].visitedTransactions
           toFetch == SelectSeq(PTop(w).ids, Fresh)
           rl == checkRateLimitTimes(requestCount, lastResetTime, now,
                                     Len(toFetch), 0)
       IN  /\ walks' = [walks EXCEPT
                           ![w].visitedTransactions = @ \cup Range(toFetch),
                           ![w].refused =
                               {toFetch[i] : i \in rl.admitted + 1 .. Len(toFetch)},
                           ![w].stack =
                               << Task("await", toFetch, PTop(w).x, PTop(w).hop) >>
                               \o Tail(walks[w].stack)]
           /\ requestCount' = rl.count
           /\ lastResetTime' = rl.last
    /\ UNCHANGED << sancVars, analysisCache >>
    /\ PairUnchangedOthers

\* Promise.all of a batch settles: the refused and the failed fetches are
\* dropped.
PairAwait(w) ==
    /\ PairRunning(w, "await")
    /\ \E failed \in SUBSET Range(PTop(w).ids) :
          /\ walks[w].refused \subseteq failed
          /\ LET Valid(id) == id \notin failed
                 valid == SelectSeq(PTop(w).ids, Valid)
             IN  walks' = [walks EXCEPT
                              ![w].refused = {},
                              ![w].sawFailure = @ \/ failed # {},
                              ![w].stack =
                                  [i \in 1 .. Len(valid) |->
                                      Task("tx", << >>, valid[i], PTop(w).hop)]
                                  \o Tail(walks[w].stack)]
    /\ PairLocalOnly

\* One fetched transaction: analyzeTransaction against the shared index,
\* then the choice of the next-hop addresses.
PairTx(w) ==
    /\ PairRunning(w, "tx")
    /\ LET tx == TxOf(graph, PTop(w).x)
           hop == PTop(w).hop
           addresses == extractAddressesFromTransaction(tx)
           Unvisited(a) == a \notin walks[w].visitedAddresses
           connected == SelectSeq(addresses, Unvisited)
           ld == IF connected = << >>
                 THEN [cache |-> sanctionsCache, last |-> lastLoadTime,
                       ok |-> TRUE, read |-> FALSE]
                 ELSE loadAllSanctions(sanctionsCache, lastLoadTime, now, source)
           next == Take(connected, 3)
           rest == Tail(walks[w].stack)
       IN  /\ walks' = [walks EXCEPT
                           ![w].analysis =
                               analyzeTransaction(@, tx, hop,
                                                  walks[w].visitedAddresses, ld),
                           ![w].stack =
                               IF hop + 1 < PairKey[2]
                               THEN [i \in 1 .. Len(next) |->
                                        Task("addr", << >>, next[i], hop + 1)]
                                    \o rest
                               ELSE rest]
           /\ sanctionsCache' = ld.cache
           /\ lastLoadTime' = ld.last
    /\ UNCHANGED << analysisCache, requestCount, lastResetTime >>
    /\ PairUnchangedOthers

\* One next-hop address: its request passes the shared rate limiter; when
\* it is refused or fails the address is skipped.
PairAddr(w, delivered) ==
    /\ PairRunning(w, "addr")
    /\ LET rl == checkRateLimit(requestCount, lastResetTime, now)
           x == PTop(w).x
           rest == Tail(walks[w].stack)
       IN  /\ walks' = [walks EXCEPT
                           ![w].visitedAddresses = @ \cup {x},
                           ![w].sawFailure = @ \/ ~(rl.ok /\ delivered),
                           ![w].stack =
                               IF rl.ok /\ delivered
                               THEN << Task("hop", getAddressTransactions(x, 5),
                                            x, PTop(w).hop) >> \o rest
                               ELSE rest]
           /\ requestCount' = rl.count
           /\ lastResetTime' = rl.last
    /\ UNCHANGED << sancVars, analysisCache >>
    /\ PairUnchangedOthers

\* analyzeHop(target, ..., 0) has returned: risk propagation, cache, return.
PairReturn(w) ==
    /\ walks[w].pc = "running"
    /\ walks[w].stack = << >>
    /\ LET final == [walks[w].analysis EXCEPT
                        !.riskPropagation =
                            calculateRiskPropagation(walks[w].analysis)]
       IN  /\ walks' = [walks EXCEPT ![w].pc = "done", ![w].analysis = final,
                                     ![w].ret = final]
           /\ analysisCache' = [analysisCache EXCEPT ![PairKey] = final]
    /\ UNCHANGED << sancVars, requestCount, lastResetTime >>
    /\ PairUnchangedOthers

\* The limiter has admitted nothing yet, or is three requests below its cap.
InitPairSpec ==
    /\ now = Now0
    /\ source = "F1"
    /\ graph = 1
    /\ reqCount = 0
    /\ InitSanctions /\ InitScreen /\ InitWalk
    /\ requestCount \in {0, maxRequestsPerMinute - 3}
    /\ lastResetTime = Now0
    /\ pending = 0
    /\ admittedInWindow = requestCount
    /\ lastCall = NoCall
    /\ InitAudit /\ InitBatch /\ InitTx /\ InitIdx /\ InitVal
    /\ InitHttp /\ InitWin /\ InitPair /\ InitTxBatch

NextPair ==
    \/ \E w \in Walkers : PairBegin(w)
    \/ \E w \in Walkers : PairSeedOk(w)
    \/ \E w \in Walkers : PairSeedFail(w)
    \/ \E w \in Walkers : PairHop(w)
    \/ \E w \in Walkers : PairBatch(w)
    \/ \E w \in Walkers : PairAwait(w)
    \/ \E w \in Walkers : PairTx(w)
    \/ \E w \in Walkers, delivered \in BOOLEAN : PairAddr(w, delivered)
    \/ \E w \in Walkers : PairReturn(w)

SpecPair == InitPairSpec /\ [][NextPair]_vars

(***************************************************************************)
(* The audit log (AuditLogService).  Each logScreeningAction call is a     *)
(* process: it suspends at every await of writeAuditLog, and the calls of  *)
(* concurrent screenings interleave at those points.  A file is named by   *)
(* <<directory day, file day>>; an absent file reads as ENOENT, which      *)
(* writeAuditLog turns into the empty array.  Any file operation may fail. *)
(***************************************************************************)
\* getDateBasedFilePath(config.auditLogsDir, "audit_<fileDay>.json") when
\* called on day today: the directory is today's.
getDateBasedFilePath(today, fileDay) == << today, fileDay >>

\* logScreeningAction up to the first await of writeAuditLog: the entry is
\* built with the current timestamp and the path of its day file computed.
LogScreeningAction(w) ==
    /\ writers[w].pc = "idle"
    /\ nextId <= MaxEntries
    /\ LET auditLog == [id |-> nextId, day |-> day]
       IN  writers' = [writers EXCEPT ![w] =
                          [pc |-> "mkdir", auditLog |-> auditLog,
                           filePath |-> getDateBasedFilePath(day, auditLog.day),
                           existingLogs |-> << >>]]
    /\ nextId' = nextId + 1
    /\ UNCHANGED << day, auditFiles, acked, lastQuery >>
    /\ UNCHANGED << envVars, sancVars, scrVars, walkVars, txVars, idxVars, valVars, httpVars, winVars, pairVars, tbVars, rateVars, batchVars >>

\* await ensureDirectoryExists(dirname(filePath)); a failure is rethrown by
\* writeAuditLog and swallowed by logScreeningAction.
WriterEnsureDirectory(w, ok) ==
    /\ writers[w].pc = "mkdir"
    /\ writers' = [writers EXCEPT ![w] =
                      IF ok THEN [@ EXCEPT !.pc = "read"] ELSE IdleWriter]
    /\ UNCHANGED << day, auditFiles, nextId, acked, lastQuery >>
    /\ UNCHANGED << envVars, sancVars, scrVars, walkVars, txVars, idxVars, valVars, httpVars, winVars, pairVars, tbVars, rateVars, batchVars >>

\* existingLogs = await readJsonFile(filePath), ENOENT giving [].
WriterRead(w, ok) ==
    /\ writers[w].pc = "read"
    /\ writers' = [writers EXCEPT ![w] =
                      IF ok
                      THEN [@ EXCEPT !.pc = "write",
                                     !.existingLogs =
                                         auditFiles[writers[w].filePath]]
                      ELSE IdleWriter]
    /\ UNCHANGED << day, auditFiles, nextId, acked, lastQuery >>
    /\ UNCHANGED << envVars, sancVars, scrVars, walkVars, txVars, idxVars, valVars, httpVars, winVars, pairVars, tbVars, rateVars, batchVars >>

\* existingLogs.push(auditLog); await writeJsonFile(filePath, existingLogs).
WriterWrite(w, ok) ==
    /\ writers[w].pc = "write"
    /\ IF ok
       THEN /\ auditFiles' = [auditFiles EXCEPT ![writers[w].filePath] =
                                 Append(writers[w].existingLogs,
                                        writers[w].auditLog)]
            /\ acked' = acked \cup {[auditLog |-> writers[w].auditLog,
                                     filePath |-> writers[w].filePath]}
       ELSE UNCHANGED << auditFiles, acked >>
    /\ writers' = [writers EXCEPT ![w] = IdleWriter]
    /\ UNCHANGED << day, nextId, lastQuery >>
    /\ UNCHANGED << envVars, sancVars, scrVars, walkVars, txVars, idxVars, valVars, httpVars, winVars, pairVars, tbVars, rateVars, batchVars >>

\* Midnight (UTC) passes.
DayTick ==
    /\ day < MaxDays
    /\ day' = day + 1
    /\ UNCHANGED << auditFiles, writers, nextId, acked, lastQuery >>
    /\ UNCHANGED << envVars, sancVars, scrVars, walkVars, txVars, idxVars, valVars, httpVars, winVars, pairVars, tbVars, rateVars, batchVars >>

\* getAuditLogsForDate(date): the file audit_<date>.json is looked up under
\* getDateBasedFilePath, a missing file giving [].  stored is what the
\* writers keep for that day, at the path writeAuditLog computed for them.
\* Any other read error is rethrown.
GetAuditLogsForDate(date, ok) ==
    /\ lastQuery' = [date |-> date, today |-> day, threw |-> ~ok,
                     entries |-> IF ok
                                 THEN auditFiles[getDateBasedFilePath(day, date)]
                                 ELSE << >>,
                     stored |-> auditFiles[getDateBasedFilePath(date, date)]]
    /\ UNCHANGED << day, auditFiles, writers, nextId, acked >>
    /\ UNCHANGED << envVars, sancVars, scrVars, walkVars, txVars, idxVars, valVars, httpVars, winVars, pairVars, tbVars, rateVars, batchVars >>

InitAuditSpec == InitOthers /\ InitRate /\ InitAudit /\ InitBatch /\ InitTx /\ InitIdx /\ InitVal /\ InitHttp /\ InitWin /\ InitPair /\ InitTxBatch

NextAudit ==
    \/ \E w \in Writers : LogScreeningAction(w)
    \/ \E w \in Writers, ok \in BOOLEAN : WriterEnsureDirectory(w, ok)
    \/ \E w \in Writers, ok \in BOOLEAN : WriterRead(w, ok)
    \/ \E w \in Writers, ok \in BOOLEAN : WriterWrite(w, ok)
    \/ \E d \in Days, ok \in BOOLEAN : GetAuditLogsForDate(d, ok)
    \/ DayTick

SpecAudit == InitAuditSpec /\ [][NextAudit]_vars

(***************************************************************************)
(* screenAddressesBatch.  The valid addresses are screened in chunks of    *)
(* batchSize; the screenings of a chunk run concurrently and the chunk     *)
(* ends when all have settled (Promise.all over promises that cannot       *)
(* reject).  screenAddress rethrows whatever its body throws, so any       *)
(* screening may fail; which ones do is the environment's choice.          *)
(***************************************************************************)
\* The first n elements of pat repeated.
Cycle(pat, n) == [i \in 1 .. n |-> pat[((i - 1) % Len(pat)) + 1]]

BatchPatterns ==
    { << "1T", "1S", "bad" >>,
      << "bad", "bad", "1M" >>,
      << "1S", "1T", "1M", "1s" >>,
      << "1T", "1S", "1M", "1T", "1A", "bad" >> }

BatchInputs == {Cycle(pat, n) : pat \in BatchPatterns, n \in 0 .. MaxBatchLen}

\* The result the .catch handler of the batch substitutes for a screening
\* that threw.
FailedResult(address) ==
    [status |-> "stub", address |-> address, riskScore10 |-> 0,
     riskLevel |-> "LOW", sanctionMatches |-> << >>, confidence |-> 0,
     transactionAnalysis |-> NoAnalysis]

\* The variant leaves a failed screening out of the results.
screenChunkDropFailed(chunk, thrown, ld, walked) ==
    LET Kept(r) == r.status = "ok"
    IN  SelectSeq([k \in 1 .. Len(chunk) |->
                      IF k \in thrown
                      THEN FailedResult(chunk[k])
                      ELSE ScreeningResult(chunk[k],
                               findDirectSanctionMatches(ld, chunk[k]),
                               IF walked THEN EmptyAnalysis(chunk[k], 5)
                               ELSE NoAnalysis)],
                  Kept)

\* batchResults of one chunk: the screenings at the positions in thrown
\* threw; walked tells whether the walks of the chunk succeeded (they are
\* abstracted to a walk that meets no sanctioned address).
screenChunk(chunk, thrown, ld, walked) ==
    [k \in 1 .. Len(chunk) |->
        IF k \in thrown
        THEN FailedResult(chunk[k])
        ELSE ScreeningResult(chunk[k],
                 findDirectSanctionMatches(ld, chunk[k]),
                 IF walked THEN EmptyAnalysis(chunk[k], 5) ELSE NoAnalysis)]

\* The sets of failing positions the model lets the environment choose for
\* a chunk of n screenings: none, any single one, or all.
ThrownChoices(n) == {{}} \cup {{k} : k \in 1 .. n} \cup {1 .. n}

\* Lines 143-166: the valid addresses are filtered out, results = [].
ScreenAddressesBatchBegin(addresses, includeWalk) ==
    /\ bpc = "idle"
    /\ bpc' = "running"
    /\ batch' = [addresses |-> addresses,
                 validAddresses |-> SelectSeq(addresses, isValidBitcoinAddress),
                 invalidAddresses |->
                     SelectSeq(addresses, LAMBDA a : ~isValidBitcoinAddress(a)),
                 includeWalk |-> includeWalk, i |-> 0, threw |-> {}]
    /\ bResults' = << >>
    /\ UNCHANGED << envVars, sancVars, scrVars, walkVars, txVars, idxVars, valVars, httpVars, winVars, pairVars, tbVars, rateVars, auditVars >>

\* One iteration of the chunk loop, lines 168-194.
BatchChunk ==
    /\ bpc = "running"
    /\ batch.i < Len(batch.validAddresses)
    /\ LET chunk == SubSeq(batch.validAddresses, batch.i + 1,
                           Min(batch.i + batchSize, Len(batch.validAddresses)))
           ld == loadAllSanctions(sanctionsCache, lastLoadTime, now, source)
       IN  /\ sanctionsCache' = ld.cache
           /\ lastLoadTime' = ld.last
           /\ \E thrown \in ThrownChoices(Len(chunk)), walkOk \in BOOLEAN :
                 /\ bResults' = bResults \o
                       screenChunk(chunk, thrown, ld,
                                   batch.includeWalk /\ walkOk)
                 /\ batch' = [batch EXCEPT
                                 !.i = @ + batchSize,
                                 !.threw = @ \cup {batch.i + k : k \in thrown}]
    /\ UNCHANGED << envVars, scrVars, walkVars, txVars, idxVars, valVars, httpVars, winVars, pairVars, tbVars, rateVars, auditVars, bpc >>

\* Lines 196-220: the bulk entry is logged and results returned.
BatchReturn ==
    /\ bpc = "running"
    /\ batch.i >= Len(batch.validAddresses)
    /\ bpc' = "done"
    /\ \E io \in AuditIo :
          lastAudit' = [action |-> "BULK_SCREENING",
                        address |-> << "bulk", Len(batch.addresses) >>,
                        result |-> [totalAddresses |-> Len(batch.addresses),
                                    validAddresses |-> Len(batch.validAddresses),
                                    invalidAddresses |-> Len(batch.invalidAddresses),
                                    resultsCount |-> Len(bResults)],
                        success |-> TRUE,
                        written |-> logScreeningAction(io).written]
    /\ UNCHANGED << envVars, sancVars, spc, req, result, walkVars, txVars, idxVars, valVars, httpVars, winVars, pairVars, tbVars, rateVars,
                    auditVars, batch, bResults >>

InitBatchSpec ==
    /\ now = Now0
    /\ source \in {"F1", "corrupt"}
    /\ graph = 1
    /\ reqCount = 0
    /\ InitSanctions
    /\ InitScreen
    /\ InitWalk
    /\ InitRate
    /\ InitAudit
    /\ InitBatch
    /\ InitTx
    /\ InitIdx
    /\ InitVal
    /\ InitHttp /\ InitWin /\ InitPair /\ InitTxBatch

NextBatch ==
    \/ \E addresses \in BatchInputs, includeWalk \in BOOLEAN :
          ScreenAddressesBatchBegin(addresses, includeWalk)
    \/ BatchChunk
    \/ BatchReturn

SpecBatch == InitBatchSpec /\ [][NextBatch]_vars


(***************************************************************************)
(* screenTransaction.  The call fetches the transaction, screens its input *)
(* and then its output addresses one after another with                    *)
(* screenAddress(address, false, 3), and aggregates.  Hash "x9" is         *)
(* well-formed but unknown to the indexer.                                 *)
(***************************************************************************)
TxHashes == {"x1", "x2", "x3", "x4", "x5", "x6", "x9", "badhash"}
Directions == {"incoming", "outgoing", "both"}

\* BITCOIN_TX_HASH_REGEX.test(txHash) on the hash universe.
isValidBitcoinTxHash(txHash) ==
    txHash \in {"x1", "x2", "x3", "x4", "x5", "x6", "x9"}

extractInputAddresses(transaction) == Dedup(Flatten(transaction.inputs), << >>)
extractOutputAddresses(transaction) == Dedup(Flatten(transaction.outputs), << >>)

\* weight = max(1, matches) * confidence / 100, in hundredths.
ResultWeight100(r) == Max(1, Len(r.sanctionMatches)) * r.confidence

RECURSIVE SumWeightedScore(_)
SumWeightedScore(rs) ==
    IF rs = << >> THEN 0
    ELSE Head(rs).riskScore10 * ResultWeight100(Head(rs))
         + SumWeightedScore(Tail(rs))

RECURSIVE SumWeight(_)
SumWeight(rs) ==
    IF rs = << >> THEN 0 ELSE ResultWeight100(Head(rs)) + SumWeight(Tail(rs))

RECURSIVE SumConfidence(_)
SumConfidence(rs) ==
    IF rs = << >> THEN 0 ELSE Head(rs).confidence + SumConfidence(Tail(rs))

IsHighRisk(r) == r.riskLevel \in {"HIGH", "CRITICAL"}

\* The variant weights every result by its confidence alone.
calculateOverallRiskUnweighted(inputResults, outputResults) ==
    LET allResults == inputResults \o outputResults
        tws == LET RECURSIVE S(_)
                   S(rs) == IF rs = << >> THEN 0
                            ELSE Head(rs).riskScore10 * Head(rs).confidence
                                 + S(Tail(rs))
               IN  S(allResults)
        tw == SumConfidence(allResults)
        penalty == Min(25, Len(SelectSeq(allResults, IsHighRisk)) * 10)
        finalScore == IF tw = 0 THEN penalty
                      ELSE Min(100, (2 * tws + 20 * penalty * tw + 10 * tw)
                                    \div (20 * tw))
    IN  IF Len(allResults) = 0 THEN [score |-> 0, level |-> "LOW"]
        ELSE [score |-> finalScore,
              level |-> IF finalScore >= 76 THEN "CRITICAL"
                        ELSE IF finalScore >= 51 THEN "HIGH"
                        ELSE IF finalScore >= 26 THEN "MEDIUM"
                        ELSE "LOW"]

\* calculateOverallRisk.  With the scores in tenths and the weights in
\* hundredths, averageScore = tws / (10 * tw), and
\* Math.round(averageScore + penalty) = floor(averageScore + penalty + 1/2).
\* The variant adds no penalty for HIGH and CRITICAL results.
calculateOverallRiskNoPenalty(inputResults, outputResults) ==
    LET allResults == inputResults \o outputResults
        tws == SumWeightedScore(allResults)
        tw == SumWeight(allResults)
        finalScore == IF tw = 0 THEN 0
                      ELSE Min(100, (2 * tws + 10 * tw) \div (20 * tw))
    IN  IF Len(allResults) = 0 THEN [score |-> 0, level |-> "LOW"]
        ELSE [score |-> finalScore,
              level |-> IF finalScore >= 76 THEN "CRITICAL"
                        ELSE IF finalScore >= 51 THEN "HIGH"
                        ELSE IF finalScore >= 26 THEN "MEDIUM"
                        ELSE "LOW"]

calculateOverallRisk(inputResults, outputResults) ==
    LET allResults == inputResults \o outputResults
        tws == SumWeightedScore(allResults)
        tw == SumWeight(allResults)
        penalty == Min(25, Len(SelectSeq(allResults, IsHighRisk)) * 10)
        finalScore == IF tw = 0 THEN penalty
                      ELSE Min(100, (2 * tws + 20 * penalty * tw + 10 * tw)
                                    \div (20 * tw))
    IN  IF Len(allResults) = 0 THEN [score |-> 0, level |-> "LOW"]
        ELSE [score |-> finalScore,
              level |-> IF finalScore >= 76 THEN "CRITICAL"
                        ELSE IF finalScore >= 51 THEN "HIGH"
                        ELSE IF finalScore >= 26 THEN "MEDIUM"
                        ELSE "LOW"]

\* calculateTransactionConfidence: 60 + 20 * screened / total
\* + 20 * averageConfidence / 100, rounded; total counts the input and the
\* output addresses of the transaction, whatever the direction.
calculateTransactionConfidence(inputResults, outputResults, transaction) ==
    LET allResults == inputResults \o outputResults
        n == Len(allResults)
        t == Len(extractInputAddresses(transaction))
             + Len(extractOutputAddresses(transaction))
        c == SumConfidence(allResults)
    IN  IF n = 0 THEN 30
        ELSE IF t = 0
        THEN Min(100, (800 * n + 2 * c + 5 * n) \div (10 * n))
        ELSE Min(100, (600 * t * n + 200 * n * n + 2 * t * c + 5 * t * n)
                      \div (10 * t * n))

TxAudit(txHash, payload, success, written) ==
    [action |-> "TRANSACTION_SCREENING", address |-> << "tx", txHash >>,
     result |-> payload, success |-> success, written |-> written]

TxError(txHash, kind) == [status |-> "error", txHash |-> txHash, kind |-> kind]

\* The catch block of screenTransaction: a failure entry, then the throw.
TxFail(txHash, kind) ==
    /\ tpc' = "done"
    /\ tResult' = TxError(txHash, kind)
    /\ \E io \in AuditIo :
          lastAudit' = TxAudit(txHash, [error |-> kind], FALSE,
                               logScreeningAction(io).written)

\* A malformed hash: ValidationError before anything else.
ScreenTransactionInvalid(txHash, direction, includeMetadata) ==
    /\ tpc = "idle"
    /\ ~isValidBitcoinTxHash(txHash)
    /\ treq' = [txHash |-> txHash, direction |-> direction,
                includeMetadata |-> includeMetadata, requests |-> 0,
                lookups |-> 0, walks |-> 0,
                auditFailed |-> FALSE]
    /\ TxFail(txHash, "VALIDATION")
    /\ UNCHANGED << envVars, sancVars, spc, req, result, walkVars, rateVars,
                    auditVars, batchVars, idxVars, valVars, httpVars, winVars, pairVars, tbVars >>

\* A well-formed hash: up to the await of getTransaction.
ScreenTransactionBegin(txHash, direction, includeMetadata) ==
    /\ tpc = "idle"
    /\ isValidBitcoinTxHash(txHash)
    /\ tpc' = "fetching"
    /\ treq' = [txHash |-> txHash, direction |-> direction,
                includeMetadata |-> includeMetadata, requests |-> 1,
                lookups |-> 0, walks |-> 0,
                auditFailed |-> FALSE]
    /\ UNCHANGED << envVars, sancVars, scrVars, walkVars, rateVars, auditVars,
                    batchVars, idxVars, valVars, httpVars, winVars, pairVars, tbVars, tResult >>

\* getTransaction fails (transport error, rate limit, unknown hash).
TxFetchFail ==
    /\ tpc = "fetching"
    /\ TxFail(treq.txHash, "EXTERNAL_API")
    /\ UNCHANGED << envVars, sancVars, spc, req, result, walkVars, rateVars,
                    auditVars, batchVars, idxVars, valVars, httpVars, winVars, pairVars, tbVars, treq >>

\* getTransaction returns: the addresses to screen are extracted.
TxFetchOk ==
    /\ tpc = "fetching"
    /\ \E t \in Graphs[graph].txs : t.txid = treq.txHash
    /\ tpc' = "screening"
    /\ LET transaction == TxOf(graph, treq.txHash)
       IN  treq' = treq @@
               [transaction |-> transaction,
                inputAddresses |->
                    IF treq.direction \in {"incoming", "both"}
                    THEN extractInputAddresses(transaction) ELSE << >>,
                outputAddresses |->
                    IF treq.direction \in {"outgoing", "both"}
                    THEN extractOutputAddresses(transaction) ELSE << >>,
                nextInput |-> 1, nextOutput |-> 1,
                inputScreeningResults |-> << >>,
                outputScreeningResults |-> << >>]
    /\ UNCHANGED << envVars, sancVars, scrVars, walkVars, rateVars, auditVars,
                    batchVars, idxVars, valVars, httpVars, winVars, pairVars, tbVars, tResult >>

\* The variant asks for the transaction analysis: the walker runs for the
\* address, with at least the request for its transaction list.
screenAddressOfTransactionWithWalk(address, ld) ==
    [result |-> ScreeningResult(address, findDirectSanctionMatches(ld, address),
                                EmptyAnalysis(address, 3)),
     walks |-> 1, requests |-> 1]

\* The call screenAddress(address, false, 3) of the two loops: the walk
\* branch is not taken, so no walker call and no indexer request.
screenAddressOfTransaction(address, ld) ==
    [result |-> ScreeningResult(address, findDirectSanctionMatches(ld, address),
                                NoAnalysis),
     walks |-> 0, requests |-> 0]

\* One round of the two screening loops: screenAddress(address, false, 3).
\* A screening that throws (invalid address) is logged and skipped.
TxScreenAddress ==
    /\ tpc = "screening"
    /\ \/ treq.nextInput <= Len(treq.inputAddresses)
       \/ treq.nextOutput <= Len(treq.outputAddresses)
    /\ LET isInput == treq.nextInput <= Len(treq.inputAddresses)
           address == IF isInput THEN treq.inputAddresses[treq.nextInput]
                      ELSE treq.outputAddresses[treq.nextOutput]
           valid == isValidBitcoinAddress(address)
           ld == IF valid
                 THEN loadAllSanctions(sanctionsCache, lastLoadTime, now, source)
                 ELSE [cache |-> sanctionsCache, last |-> lastLoadTime,
                       ok |-> TRUE, read |-> FALSE]
           call == screenAddressOfTransaction(address, ld)
           r == call.result
       IN  /\ sanctionsCache' = ld.cache
           /\ lastLoadTime' = ld.last
           /\ \E io \in AuditIo :
                 LET lg == logScreeningAction(io)
                     returned == valid /\ ~lg.threw
                 IN  treq' = [treq EXCEPT
                        !.nextInput = IF isInput THEN @ + 1 ELSE @,
                        !.nextOutput = IF isInput THEN @ ELSE @ + 1,
                        !.inputScreeningResults =
                            IF isInput /\ returned THEN Append(@, r) ELSE @,
                        !.outputScreeningResults =
                            IF ~isInput /\ returned THEN Append(@, r) ELSE @,
                        !.lookups = IF valid THEN @ + 1 ELSE @,
                        !.requests = IF valid THEN @ + call.requests ELSE @,
                        !.walks = IF valid THEN @ + call.walks ELSE @,
                        !.auditFailed = @ \/ io # "ok"]
    /\ UNCHANGED << envVars, scrVars, walkVars, rateVars, auditVars, batchVars, idxVars, valVars, httpVars, winVars, pairVars, tbVars,
                    tpc, tResult >>

\* Both loops are over: aggregation, audit entry, return.
TxFinish ==
    /\ tpc = "screening"
    /\ treq.nextInput > Len(treq.inputAddresses)
    /\ treq.nextOutput > Len(treq.outputAddresses)
    /\ tpc' = "done"
    /\ LET ins == treq.inputScreeningResults
           outs == treq.outputScreeningResults
           riskAssessment == calculateOverallRisk(ins, outs)
           out == [status |-> "ok", txHash |-> treq.txHash,
                   direction |-> treq.direction,
                   inputAddresses |-> ins, outputAddresses |-> outs,
                   overallRiskScore |-> riskAssessment.score,
                   overallRiskLevel |-> riskAssessment.level,
                   sanctionMatches |->
                       Flatten([i \in DOMAIN ins |-> ins[i].sanctionMatches])
                       \o Flatten([i \in DOMAIN outs |-> outs[i].sanctionMatches]),
                   confidence |-> calculateTransactionConfidence(
                                      ins, outs, treq.transaction),
                   hasTransaction |-> treq.includeMetadata]
       IN  \E io \in AuditIo :
              LET lg == logScreeningAction(io)
              IN  /\ treq' = [treq EXCEPT !.auditFailed = @ \/ io # "ok"]
                  /\ IF lg.threw
                     THEN /\ tResult' = TxError(treq.txHash, "AUDIT")
                          /\ lastAudit' = TxAudit(treq.txHash,
                                 [error |-> "AUDIT"], FALSE, FALSE)
                     ELSE /\ tResult' = out
                          /\ lastAudit' = TxAudit(treq.txHash,
                                 [overallRiskScore |-> out.overallRiskScore,
                                  overallRiskLevel |-> out.overallRiskLevel,
                                  sanctionMatchCount |-> Len(out.sanctionMatches),
                                  inputAddressCount |-> Len(treq.inputAddresses),
                                  outputAddressCount |-> Len(treq.outputAddresses)],
                                 TRUE, lg.written)
    /\ UNCHANGED << envVars, sancVars, spc, req, result, walkVars, rateVars,
                    auditVars, batchVars, idxVars, valVars, httpVars, winVars, pairVars, tbVars >>

InitTxSpec == Init

NextTx ==
    \/ \E h \in TxHashes, d \in Directions, m \in BOOLEAN :
          ScreenTransactionInvalid(h, d, m)
    \/ \E h \in TxHashes, d \in Directions, m \in BOOLEAN :
          ScreenTransactionBegin(h, d, m)
    \/ TxFetchFail
    \/ TxFetchOk
    \/ TxScreenAddress
    \/ TxFinish

SpecTx == InitTxSpec /\ [][NextTx]_vars

(***************************************************************************)
(* screenTransactionsBatch: the for loop over txHashes, each round one     *)
(* awaited screenTransaction(txHash, direction, false).  settled is a      *)
(* history of what each call returned or threw.                            *)
(***************************************************************************)
MaxTxBatchLen == 3
BatchTxHashes == {"x1", "x2", "badhash"}
TxHashLists ==
    UNION {[1 .. n -> BatchTxHashes] : n \in 0 .. MaxTxBatchLen}

ScreenTransactionsBatchBegin(txHashes, direction) ==
    /\ txBatch.pc = "idle"
    /\ tpc = "idle"
    /\ txBatch' = [pc |-> "running", txHashes |-> txHashes,
                   direction |-> direction, next |-> 1,
                   results |-> << >>, settled |-> << >>]
    /\ UNCHANGED << envVars, sancVars, scrVars, walkVars, rateVars, auditVars,
                    batchVars, txVars, idxVars, valVars, httpVars, winVars,
                    pairVars >>

TxBatchPending ==
    txBatch.pc = "running" /\ txBatch.next <= Len(txBatch.txHashes)

\* One round of the loop, up to the first await of its screenTransaction.
TxBatchCall ==
    /\ TxBatchPending
    /\ tpc = "idle"
    /\ LET txHash == txBatch.txHashes[txBatch.next]
       IN  \/ ScreenTransactionInvalid(txHash, txBatch.direction, FALSE)
           \/ ScreenTransactionBegin(txHash, txBatch.direction, FALSE)

\* The variant has no try/catch around the call: a failure ends the batch.
TxBatchSettleRethrows ==
    /\ TxBatchPending
    /\ tpc = "done"
    /\ tpc' = "idle"
    /\ txBatch' = IF tResult.status = "ok"
                  THEN [txBatch EXCEPT !.results = Append(@, tResult),
                                       !.settled = Append(@, tResult),
                                       !.next = @ + 1]
                  ELSE [txBatch EXCEPT !.settled = Append(@, tResult),
                                       !.pc = "failed"]
    /\ UNCHANGED << envVars, sancVars, scrVars, walkVars, rateVars, auditVars,
                    batchVars, treq, tResult, idxVars, valVars, httpVars,
                    winVars, pairVars >>

\* The awaited screenTransaction settles: its result is pushed, or its
\* error is logged and the loop goes on.
TxBatchSettle ==
    /\ TxBatchPending
    /\ tpc = "done"
    /\ tpc' = "idle"
    /\ txBatch' = [txBatch EXCEPT
                      !.results = IF tResult.status = "ok"
                                  THEN Append(@, tResult) ELSE @,
                      !.settled = Append(@, tResult),
                      !.next = @ + 1]
    /\ UNCHANGED << envVars, sancVars, scrVars, walkVars, rateVars, auditVars,
                    batchVars, treq, tResult, idxVars, valVars, httpVars,
                    winVars, pairVars >>

\* The loop is over: results is returned.
TxBatchReturn ==
    /\ txBatch.pc = "running"
    /\ txBatch.next > Len(txBatch.txHashes)
    /\ txBatch' = [txBatch EXCEPT !.pc = "done"]
    /\ UNCHANGED << envVars, sancVars, scrVars, walkVars, rateVars, auditVars,
                    batchVars, txVars, idxVars, valVars, httpVars, winVars,
                    pairVars >>

InitTxBatchSpec ==
    /\ now = Now0
    /\ source = "F1"
    /\ graph = 1
    /\ reqCount = 0
    /\ InitSanctions /\ InitScreen /\ InitWalk
    /\ InitRate /\ InitAudit /\ InitBatch /\ InitTx /\ InitIdx /\ InitVal
    /\ InitHttp /\ InitWin /\ InitPair /\ InitTxBatch

NextTxBatch ==
    \/ \E l \in TxHashLists, d \in Directions :
          ScreenTransactionsBatchBegin(l, d)
    \/ TxBatchCall
    \/ TxFetchFail
    \/ TxFetchOk
    \/ TxScreenAddress
    \/ TxFinish
    \/ TxBatchSettle
    \/ TxBatchReturn

SpecTxBatch == InitTxBatchSpec /\ [][NextTxBatch]_vars

(***************************************************************************)
(* The sanctions index over time: lookups, clearCache and the clock.       *)
(* lastAccess records what the last lookup did: whether it read the        *)
(* source, and the lastLoadTime and index it found.                        *)
(***************************************************************************)
MaxIndexTicks == 3
IndexTickMs == 30 * 60 * 1000

\* findSanctionsByAddress: getAllSanctions (loadAllSanctions, then the
\* cache) and the filter.  A load error propagates to the caller.
FindSanctionsByAddress(address) ==
    /\ isValidBitcoinAddress(address)
    /\ LET ld == loadAllSanctions(sanctionsCache, lastLoadTime, now, source)
       IN  /\ sanctionsCache' = ld.cache
           /\ lastLoadTime' = ld.last
           /\ lastAccess' =
                 [kind |-> "find", ok |-> ld.ok, read |-> ld.read,
                  first |-> lastAccess.kind \in {"none", "clear"},
                  at |-> now, lastBefore |-> lastLoadTime,
                  emptyBefore |-> sanctionsCache = << >>,
                  found |-> IF ld.ok
                            THEN Len(findSanctionsByAddress(ld.cache, address))
                            ELSE 0]
    /\ UNCHANGED << envVars, scrVars, walkVars, rateVars, auditVars, batchVars,
                    txVars, valVars, httpVars, winVars, pairVars, tbVars >>

\* clearCache.
ClearCache ==
    /\ lastAccess.kind # "clear"
    /\ sanctionsCache' = << >>
    /\ lastLoadTime' = 0
    /\ lastAccess' = [kind |-> "clear"]
    /\ UNCHANGED << envVars, scrVars, walkVars, rateVars, auditVars, batchVars,
                    txVars, valVars, httpVars, winVars, pairVars, tbVars >>

IndexTick ==
    /\ now < Now0 + MaxIndexTicks * IndexTickMs
    /\ now' = now + IndexTickMs
    /\ UNCHANGED << source, graph, reqCount, sancVars, scrVars, walkVars,
                    auxVars >>

InitIndexSpec == Init

NextIndex ==
    \/ \E a \in Addr : FindSanctionsByAddress(a)
    \/ ClearCache
    \/ IndexTick

SpecIndex == InitIndexSpec /\ [][NextIndex]_vars

\* The same index over sources that mix active and inactive rows.
InitSourceSpec ==
    /\ now = Now0
    /\ source \in MixedSources
    /\ graph = 1
    /\ reqCount = 0
    /\ InitSanctions /\ InitScreen /\ InitWalk
    /\ InitRate /\ InitAudit /\ InitBatch /\ InitTx /\ InitIdx /\ InitVal
    /\ InitHttp /\ InitWin /\ InitPair /\ InitTxBatch

SpecSource == InitSourceSpec /\ [][NextIndex]_vars

(***************************************************************************)
(* The validators on real strings.  A string is the sequence of its        *)
(* characters; the inputs are a head, a body that repeats a short pattern  *)
(* up to a chosen length, and a tail.                                      *)
(***************************************************************************)
MaxBodyLen == 64

LowerChars == << "a", "b", "c", "d", "e", "f", "g", "h", "i", "j", "k", "l",
                 "m", "n", "o", "p", "q", "r", "s", "t", "u", "v", "w", "x",
                 "y", "z" >>
UpperChars == << "A", "B", "C", "D", "E", "F", "G", "H", "I", "J", "K", "L",
                 "M", "N", "O", "P", "Q", "R", "S", "T", "U", "V", "W", "X",
                 "Y", "Z" >>
DigitChars == {"0", "1", "2", "3", "4", "5", "6", "7", "8", "9"}

\* [a-km-zA-HJ-NP-Z1-9]
Base58Chars ==
    (Range(LowerChars) \ {"l"}) \cup (Range(UpperChars) \ {"I", "O"})
        \cup (DigitChars \ {"0"})
\* [a-z0-9]
Bech32Chars == Range(LowerChars) \cup DigitChars
\* [a-fA-F0-9]
HexChars ==
    DigitChars \cup {"a", "b", "c", "d", "e", "f"}
        \cup {"A", "B", "C", "D", "E", "F"}

CharIndex(chars, c) == CHOOSE i \in DOMAIN chars : chars[i] = c

\* String.prototype.toLowerCase / toUpperCase on these characters.
toLowerCase(s) ==
    [i \in DOMAIN s |->
        IF s[i] \in Range(UpperChars)
        THEN LowerChars[CharIndex(UpperChars, s[i])] ELSE s[i]]
toUpperCase(s) ==
    [i \in DOMAIN s |->
        IF s[i] \in Range(LowerChars)
        THEN UpperChars[CharIndex(LowerChars, s[i])] ELSE s[i]]

AllIn(s, from, to, chars) == \A i \in from .. to : s[i] \in chars

\* The variant closes the group before the end anchor:
\* /^([13][...]{25,34}|bc1[a-z0-9]{39,59})$/.
BITCOIN_ADDRESS_REGEX_Anchored(s) ==
    \/ /\ Len(s) - 1 \in 25 .. 34
       /\ s[1] \in {"1", "3"}
       /\ AllIn(s, 2, Len(s), Base58Chars)
    \/ /\ Len(s) - 3 \in 39 .. 59
       /\ s[1] = "b" /\ s[2] = "c" /\ s[3] = "1"
       /\ AllIn(s, 4, Len(s), Bech32Chars)

\* BITCOIN_ADDRESS_REGEX.test(s) for
\* /^([13][a-km-zA-HJ-NP-Z1-9]{25,34})|^(bc1[a-z0-9]{39,59})$/ : the first
\* alternative is anchored at the start only, so it matches as soon as the
\* string begins with [13] and 25 base58 characters; the second one must
\* reach the end of the string.
BITCOIN_ADDRESS_REGEX(s) ==
    \/ /\ Len(s) >= 26
       /\ s[1] \in {"1", "3"}
       /\ AllIn(s, 2, 26, Base58Chars)
    \/ /\ Len(s) - 3 \in 39 .. 59
       /\ s[1] = "b" /\ s[2] = "c" /\ s[3] = "1"
       /\ AllIn(s, 4, Len(s), Bech32Chars)

\* BITCOIN_TX_HASH_REGEX.test(s) for /^[a-fA-F0-9]{64}$/.
BITCOIN_TX_HASH_REGEX(s) == Len(s) = 64 /\ AllIn(s, 1, 64, HexChars)

Heads == { << >>, << "1" >>, << "3" >>, << "b", "c", "1" >>, << "2" >> }
Patterns == { << "a" >>, << "A", "b" >>, << "L", "a" >>, << "i", "C" >>,
              << "l" >>, << "0" >>, << "g" >>, << "F", "1" >>, << "!" >> }
Tails == { << >>, << "!" >>, << "a" >> }

Body(pat, n) == [i \in 1 .. n |-> pat[((i - 1) % Len(pat)) + 1]]
Identifiers ==
    { h \o Body(p, n) \o t :
        h \in Heads, p \in Patterns, n \in 0 .. MaxBodyLen, t \in Tails }

\* The entities of the sanctions index, with their addresses as strings.
StringSanctions ==
    << [entityId |-> "E1", listSource |-> "OFAC",
        addresses |-> << << "1" >> \o Body(<< "a" >>, 33) >>],
       [entityId |-> "E2", listSource |-> "OFAC",
        addresses |-> << << "3" >> \o Body(<< "A", "b" >>, 30),
                         << "1" >> \o Body(<< "a" >>, 33) >>] >>

\* The variant compares the addresses as stored.
findSanctionsByStringExact(all, address) ==
    LET Hit(e) == \E i \in DOMAIN e.addresses : e.addresses[i] = address
    IN  SelectSeq(all, Hit)

\* findSanctionsByAddress on strings:
\* addr.toLowerCase() === address.toLowerCase().
findSanctionsByString(all, address) ==
    LET Hit(e) == \E i \in DOMAIN e.addresses :
                      toLowerCase(e.addresses[i]) = toLowerCase(address)
    IN  SelectSeq(all, Hit)

\* screenAddress(address, false) on a string: the validation, then the
\* direct matches.
screenAddressString(address) ==
    IF ~BITCOIN_ADDRESS_REGEX(address)
    THEN [status |-> "error", address |-> address]
    ELSE LET ents == findSanctionsByString(StringSanctions, address)
             sanctionMatches ==
                 [i \in 1 .. Len(ents) |-> DirectMatch(ents[i], address)]
         IN  [status |-> "ok", address |-> address,
              sanctionMatches |-> sanctionMatches,
              riskScore10 |-> 10 * calculateDirectMatchRiskScore(sanctionMatches)]

\* validateRiskIdentifier(identifier), with the verdict of each validator.
ValidateRiskIdentifier ==
    /\ validation = NoValidation
    /\ validation' =
          [op |-> "validate",
           isAddress |-> BITCOIN_ADDRESS_REGEX(identifier),
           isTxHash |-> BITCOIN_TX_HASH_REGEX(identifier),
           type |-> IF BITCOIN_ADDRESS_REGEX(identifier) THEN "address"
                    ELSE IF BITCOIN_TX_HASH_REGEX(identifier) THEN "transaction"
                    ELSE "error"]
    /\ UNCHANGED << envVars, sancVars, scrVars, walkVars, rateVars, auditVars,
                    batchVars, txVars, idxVars, httpVars, winVars, pairVars, tbVars, identifier >>

\* screenAddress(a.toUpperCase(), false) and screenAddress(a.toLowerCase(),
\* false), one after the other on the same index.
ScreenAddressBothCases ==
    /\ validation = NoValidation
    /\ validation' =
          [op |-> "screen",
           upper |-> screenAddressString(toUpperCase(identifier)),
           lower |-> screenAddressString(toLowerCase(identifier))]
    /\ UNCHANGED << envVars, sancVars, scrVars, walkVars, rateVars, auditVars,
                    batchVars, txVars, idxVars, httpVars, winVars, pairVars, tbVars, identifier >>

InitValidateSpec ==
    /\ InitOthers /\ InitRate /\ InitAudit /\ InitBatch /\ InitTx /\ InitIdx
    /\ InitHttp /\ InitWin /\ InitPair /\ InitTxBatch
    /\ identifier \in Identifiers
    /\ validation = NoValidation

NextValidate ==
    \/ ValidateRiskIdentifier
    \/ ScreenAddressBothCases

SpecValidate == InitValidateSpec /\ [][NextValidate]_vars

(***************************************************************************)
(* The HTTP routes of /api/screening.                                      *)
(***************************************************************************)
\* req.body.txHash ("" when the field is absent) and req.body.direction
\* ("undefined" when absent, which the destructuring turns into 'both').
BodyTxHashes == TxHashes \cup {""}
BodyDirections == Directions \cup {"undefined", "sideways"}

ValidationErrorReply(route, message) ==
    [route |-> route, status |-> 400, success |-> FALSE,
     code |-> "VALIDATION_ERROR", message |-> message]

\* router.post('/transaction'): the three validations, then the reply.  The
\* handler builds its reply from the request alone.
PostScreeningTransaction(bodyTxHash, bodyDirection) ==
    /\ LET txHash == bodyTxHash
           direction == IF bodyDirection = "undefined" THEN "both"
                        ELSE bodyDirection
       IN  httpResponse' =
              IF txHash = ""
              THEN ValidationErrorReply("transaction", "required")
              ELSE IF ~isValidBitcoinTxHash(txHash)
              THEN ValidationErrorReply("transaction", "format")
              ELSE IF direction \notin {"incoming", "outgoing", "both"}
              THEN ValidationErrorReply("transaction", "direction")
              ELSE [route |-> "transaction", status |-> 200, success |-> TRUE,
                    data |-> [txHash |-> txHash, direction |-> direction,
                              addresses |-> << >>, riskScore |-> 0,
                              riskLevel |-> "LOW", sanctionMatches |-> << >>,
                              confidence |-> 50, processingTimeMs |-> 0]]
    /\ UNCHANGED << envVars, sancVars, scrVars, walkVars, rateVars, auditVars,
                    batchVars, txVars, idxVars, valVars, winVars, pairVars, tbVars >>

\* The request bodies of POST /address: the address (absent as ""), and
\* maxHops absent or a number below, inside and above the documented range.
BodyAddresses == Addr \cup {""}
BodyMaxHops ==
    {[given |-> FALSE]}
        \cup {[given |-> TRUE, value |-> n] : n \in {-1, 0, 1, 5, 10, 11}}

\* router.post('/address') up to its call of screenAddress: the defaults of
\* the destructuring, the three validations, and the arguments handed to
\* screenAddress, which starts the walker with maxHops when
\* includeTransactionAnalysis is true.  The test of maxHops is
\* `maxHops && (maxHops < 1 || maxHops > 10)': 0 is falsy.
PostScreeningAddress(bodyAddress, bodyInclude, bodyMaxHops) ==
    /\ LET address == bodyAddress
           includeTransactionAnalysis == bodyInclude
           maxHops == IF bodyMaxHops.given THEN bodyMaxHops.value
                      ELSE defaultMaxHops
           truthy == maxHops # 0
       IN  httpResponse' =
              IF address = ""
              THEN ValidationErrorReply("address", "required")
              ELSE IF ~isValidBitcoinAddress(address)
              THEN ValidationErrorReply("address", "format")
              ELSE IF truthy /\ (maxHops < 1 \/ maxHops > 10)
              THEN ValidationErrorReply("address", "maxHops")
              ELSE [route |-> "address", status |-> 200, success |-> TRUE,
                    body |-> [address |-> bodyAddress,
                              includeTransactionAnalysis |-> bodyInclude,
                              maxHops |-> bodyMaxHops],
                    call |-> [address |-> address,
                              includeTransactionAnalysis |->
                                  includeTransactionAnalysis,
                              maxHops |-> maxHops]]
    /\ UNCHANGED << envVars, sancVars, scrVars, walkVars, rateVars, auditVars,
                    batchVars, txVars, idxVars, valVars, winVars, pairVars, tbVars >>

InitHttpSpec == Init

NextHttp ==
    \/ \E h \in BodyTxHashes, d \in BodyDirections : PostScreeningTransaction(h, d)
    \/ \E a \in BodyAddresses, w \in BOOLEAN, h \in BodyMaxHops :
           PostScreeningAddress(a, w, h)

SpecHttp == InitHttpSpec /\ [][NextHttp]_vars

(***************************************************************************)
(* Properties of screenAddress.                                            *)
(***************************************************************************)
\* bucket of the specification, on a score in tenths.
Bucket(riskScore10) ==
    IF riskScore10 < 260 THEN "LOW"
    ELSE IF riskScore10 < 510 THEN "MEDIUM"
    ELSE IF riskScore10 < 760 THEN "HIGH"
    ELSE "CRITICAL"

Returned == result.status = "ok"

\* The entities of the index a call read that hold the address, ignoring case.
Holders(index, address) ==
    {i \in DOMAIN index :
        \E j \in DOMAIN index[i].addresses :
            ToLower(index[i].addresses[j]) = ToLower(address)}

\* C1: every result screenAddress returns has 0 <= riskScore <= 100,
\* riskLevel = bucket(riskScore) and 0 <= confidence <= 100.
C1_ResultWithinRanges ==
    Returned =>
        /\ 0 <= result.riskScore10 /\ result.riskScore10 <= 1000
        /\ result.riskLevel = Bucket(result.riskScore10)
        /\ 0 <= result.confidence /\ result.confidence <= 100

\* C1 witness: a walk added so much to a direct match that the score was
\* capped at 100.
C1_Witness ==
    /\ Returned
    /\ result.includeWalk
    /\ HasAnalysis(result.transactionAnalysis)
    /\ 10 * calculateDirectMatchRiskScore(result.sanctionMatches)
         + 6 * result.transactionAnalysis.riskPropagation > 1000
    /\ result.riskScore10 = 1000

\* C3 (as claimed): a screenAddress call whose sanctions load failed with an
\* error other than a missing file does not return a result.
C3_LoadFailurePropagates ==
    Returned => result.loadOk

\* C4: an address held (ignoring case) by exactly one entity of the loaded
\* index, screened without walk, gets score 75, HIGH, confidence 70 and one
\* DIRECT match of confidence 100 naming that entity and the queried
\* address; held by two or more entities it gets score 80; every DIRECT
\* match has confidence 100.
C4_DirectMatchScore ==
    (Returned /\ ~result.includeWalk /\ result.loadOk) =>
        LET holders == Holders(result.index, result.address)
            m == result.sanctionMatches
        IN  /\ Cardinality(holders) = 1 =>
                 /\ result.riskScore10 = 750
                 /\ result.riskLevel = "HIGH"
                 /\ result.confidence = 70
                 /\ Len(m) = 1
                 /\ m[1].matchType = "DIRECT"
                 /\ m[1].confidence = 100
                 /\ m[1].listSource = "OFAC"
                 /\ \A i \in holders : m[1].entityId = result.index[i].entityId
                 /\ m[1].matchedAddress = result.address
            /\ Cardinality(holders) >= 2 => result.riskScore10 = 800
            /\ \A i \in DOMAIN m :
                  m[i].matchType = "DIRECT" => m[i].confidence = 100

\* C4 witness: a single-entity match found through a difference of case.
C4_Witness ==
    /\ Returned /\ ~result.includeWalk /\ result.loadOk
    /\ Cardinality(Holders(result.index, result.address)) = 1
    /\ \A i \in DOMAIN result.index :
          result.address \notin Range(result.index[i].addresses)
    /\ Len(result.sanctionMatches) = 1

\* C5: an address held by no entity of the loaded index, screened without
\* walk, gets score 0, LOW, no match, confidence 30 and no pathAnalysis.
C5_CleanAddress ==
    (Returned /\ ~result.includeWalk /\ result.loadOk
       /\ Holders(result.index, result.address) = {}) =>
        /\ result.riskScore10 = 0
        /\ result.riskLevel = "LOW"
        /\ result.sanctionMatches = << >>
        /\ result.confidence = 30
        /\ ~HasAnalysis(result.transactionAnalysis)

\* C5 witness: a clean address screened against a non-empty index.
C5_Witness ==
    /\ Returned /\ ~result.includeWalk /\ result.loadOk
    /\ result.index # << >>
    /\ Holders(result.index, result.address) = {}

\* C6: when the walk as a whole fails, screenAddress(includeWalk = true)
\* still returns: riskScore = directScore(matches), riskLevel its bucket,
\* and no pathAnalysis.
C6_WalkFailureSwallowed ==
    (result.status # "none" /\ result.includeWalk /\ result.walkFailed) =>
        /\ Returned
        /\ result.riskScore10
             = 10 * calculateDirectMatchRiskScore(result.sanctionMatches)
        /\ result.riskLevel = Bucket(result.riskScore10)
        /\ ~HasAnalysis(result.transactionAnalysis)

\* C6 witness: the walk failed for a directly sanctioned target.
C6_Witness ==
    /\ Returned /\ result.includeWalk /\ result.walkFailed
    /\ result.sanctionMatches # << >>
    /\ result.riskScore10 > 0

\* C8 (as claimed): a walk started less than 30 minutes after a walk for
\* the same (target, maxHops) completed returns the memoized analysis
\* without any indexer request, and one started later recomputes.
C8_MemoizedFor30Minutes ==
    (walkInfo.key[1] # "none" /\ walkInfo.priorDoneAt >= 0) =>
        IF walkInfo.startedAt - walkInfo.priorDoneAt < WalkCacheValidityMs
        THEN walkInfo.fromCache /\ walkInfo.requests = 0
        ELSE ~walkInfo.fromCache

\* C10 (as claimed): at every point of a walk and in the analysis it
\* returns, totalNodesAnalyzed >= sanctionedNodesFound.
C10_AnalyzedAtLeastFound ==
    /\ HasAnalysis(analysis) =>
          analysis.totalNodesAnalyzed >= analysis.sanctionedNodesFound
    /\ HasAnalysis(walkRet) =>
          walkRet.totalNodesAnalyzed >= walkRet.sanctionedNodesFound


(***************************************************************************)
(* Properties of the indexer client's rate limit.                          *)
(***************************************************************************)
\* C9 as stated: 0 <= requestCount <= 60, at most 60 calls are admitted
\* between two consecutive resets, and a call that arrives while the counter
\* is at the cap fails with EXTERNAL_API without contacting the indexer and
\* without changing the counter.
C9_AsStated ==
    /\ 0 <= requestCount /\ requestCount <= maxRequestsPerMinute
    /\ admittedInWindow <= maxRequestsPerMinute
    /\ (lastCall.op # "none" /\ lastCall.countBefore = maxRequestsPerMinute) =>
           /\ lastCall.error = "EXTERNAL_API"
           /\ ~lastCall.contacted
           /\ lastCall.countAfter = lastCall.countBefore

\* C9 (amended): 0 <= requestCount <= 60, at most 60 calls are admitted
\* between two consecutive resets, and a call that arrives while the counter
\* is at the cap and no more than 60 seconds after the last reset fails with
\* EXTERNAL_API without contacting the indexer and without changing the
\* counter.
C9_RateLimit ==
    /\ 0 <= requestCount /\ requestCount <= maxRequestsPerMinute
    /\ admittedInWindow <= maxRequestsPerMinute
    /\ (/\ lastCall.op # "none"
        /\ lastCall.countBefore = maxRequestsPerMinute
        /\ ~lastCall.windowElapsed) =>
           /\ lastCall.error = "EXTERNAL_API"
           /\ ~lastCall.contacted
           /\ lastCall.countAfter = lastCall.countBefore

\* A call arrived at the cap inside the window and was refused.
C9_Witness ==
    /\ lastCall.op # "none"
    /\ lastCall.countBefore = maxRequestsPerMinute
    /\ ~lastCall.windowElapsed
    /\ lastCall.error = "EXTERNAL_API"
    /\ admittedInWindow = maxRequestsPerMinute


(***************************************************************************)
(* Properties of the audit log.                                            *)
(***************************************************************************)
\* C2: no audit entry is lost under concurrency: once all the concurrent
\* logScreeningAction calls have completed, the day file holds the entry of
\* every call that completed without a write error, entries that were in
\* the file before included.
C2_NoEntryLost ==
    (\A w \in Writers : writers[w].pc = "idle") =>
        \A a \in acked : a.auditLog \in Range(auditFiles[a.filePath])


(***************************************************************************)
(* Properties of screenAddressesBatch.                                     *)
(***************************************************************************)
\* C7: screenAddressesBatch returns exactly one result per syntactically
\* valid input address, in the order of the valid inputs, none for an
\* invalid address; an address whose screening threw is represented by a
\* stub with riskScore 0, riskLevel LOW and confidence 0.
C7_BatchOneResultPerValid ==
    bpc = "done" =>
        LET valid == SelectSeq(batch.addresses, isValidBitcoinAddress)
        IN  /\ Len(bResults) = Len(valid)
            /\ \A i \in 1 .. Len(valid) : bResults[i].address = valid[i]
            /\ \A i \in 1 .. Len(bResults) :
                   isValidBitcoinAddress(bResults[i].address)
            /\ \A i \in batch.threw :
                   /\ bResults[i].riskScore10 = 0
                   /\ bResults[i].riskLevel = "LOW"
                   /\ bResults[i].confidence = 0

\* A batch of more than batchSize valid addresses and some invalid ones has
\* returned, and a screening of it threw.
C7_Witness ==
    /\ bpc = "done"
    /\ Len(batch.validAddresses) > batchSize
    /\ Len(batch.invalidAddresses) > 0
    /\ batch.threw # {}
    /\ \E i \in 1 .. Len(bResults) : i \notin batch.threw

(***************************************************************************)
(* Properties of the path walker.                                          *)
(***************************************************************************)
\* The analyses the program holds: the accumulator of the walk in progress,
\* what the last walk returned, the cached ones and the one in the result.
Analyses ==
    {an \in {analysis, walkRet} \cup {analysisCache[k] : k \in Keys} :
        HasAnalysis(an)}
    \cup (IF result.status = "ok" /\ HasAnalysis(result.transactionAnalysis)
          THEN {result.transactionAnalysis} ELSE {})

\* C11: in every state of a walk's accumulator and in the returned and
\* cached analysis, sanctionedNodesFound is the number of path nodes.
C11_FoundIsPathNodeCount ==
    \A an \in Analyses : an.sanctionedNodesFound = Len(an.pathNodes)

\* A walk that emitted two path nodes has returned: its analysis is cached
\* and is in the screening result.
C11_Witness ==
    \E k \in Keys : /\ HasAnalysis(analysisCache[k])
                     /\ Len(analysisCache[k].pathNodes) >= 2
                     /\ analysisCache[k].sanctionedNodesFound >= 2
                     /\ result.status = "ok"
                     /\ result.transactionAnalysis = analysisCache[k]

\* C12: every path node of a walk with parameter maxHops has
\* 1 <= hop <= maxHops, and no transaction is fetched or analyzed at a
\* recursion depth >= maxHops.
C12_HopWithinMaxHops ==
    /\ \A an \in Analyses :
           \A i \in DOMAIN an.pathNodes :
               1 <= an.pathNodes[i].hop /\ an.pathNodes[i].hop <= an.maxHops
    /\ wpc = "running" =>
           \A i \in DOMAIN stack :
               stack[i].kind \in {"batch", "await", "tx"} =>
                   stack[i].hop < req.maxHops

\* A walk with maxHops = 2 returned a path node at hop 2.
C12_Witness ==
    /\ wpc = "done"
    /\ HasAnalysis(walkRet)
    /\ walkRet.maxHops = 2
    /\ \E i \in DOMAIN walkRet.pathNodes : walkRet.pathNodes[i].hop = 2

\* A PathAnalysis with every field set, for the walk of key.
WellFormedAnalysis(an, key) ==
    /\ HasAnalysis(an)
    /\ an.targetAddress = key[1]
    /\ an.maxHops = key[2]
    /\ an.totalNodesAnalyzed \in Nat
    /\ an.sanctionedNodesFound \in Nat
    /\ an.riskPropagation \in 0 .. 100
    /\ DOMAIN an.pathNodes = 1 .. Len(an.pathNodes)

\* C13 as stated: no indexer failure, on the target's transaction list or on
\* any later fetch, makes the walk fail.
C13_AsStated == wpc # "failed"

\* C13 (amended): once the target's transaction list has been fetched, no
\* indexer failure makes the walk fail, and a walk that ends returns a
\* well-formed PathAnalysis; a walk fails only on the request for the
\* target's transaction list.
C13_WalkSurvivesLaterFailures ==
    [][ /\ (wpc' = "failed" /\ wpc # "failed") => wpc = "seeding"
        /\ (wpc' = "done" /\ wpc # "done") =>
               WellFormedAnalysis(walkRet', walkInfo'.key) ]_vars

\* A walk whose every transaction fetch failed has returned, with
\* totalNodesAnalyzed = 0.
C13_Witness ==
    /\ wpc = "done"
    /\ ~walkInfo.fromCache
    /\ walkInfo.requests > 1
    /\ HasAnalysis(walkRet)
    /\ walkRet.totalNodesAnalyzed = 0


AddressesOf(results) == [i \in DOMAIN results |-> results[i].address]

\* C14: a failed audit write (mkdir, read, parse or write error) never makes
\* a screening fail or changes what it returns: logScreeningAction completes
\* normally, so a transaction screening whose fetch succeeded returns, with
\* one result for every valid address of the requested direction, in order,
\* and with the score aggregated from exactly those results.
C14_AuditFailureHarmless ==
    tpc = "done" =>
        /\ tResult.status = "error" => tResult.kind # "AUDIT"
        /\ "transaction" \in DOMAIN treq =>
              /\ tResult.status = "ok"
              /\ AddressesOf(tResult.inputAddresses)
                    = SelectSeq(treq.inputAddresses, isValidBitcoinAddress)
              /\ AddressesOf(tResult.outputAddresses)
                    = SelectSeq(treq.outputAddresses, isValidBitcoinAddress)
              /\ tResult.overallRiskScore
                    = calculateOverallRisk(tResult.inputAddresses,
                                           tResult.outputAddresses).score

C14_Witness ==
    /\ tpc = "done"
    /\ treq.auditFailed
    /\ ~lastAudit.written
    /\ tResult.status = "ok"
    /\ Len(tResult.sanctionMatches) > 0
    /\ Len(tResult.inputAddresses) + Len(tResult.outputAddresses) >= 2


\* C15: with the sanctions source file missing, loading raises no error and
\* leaves an empty index; lookups find nothing, and screenAddress of every
\* valid address returns with riskScore 0 and riskLevel LOW.
C15_MissingSourceEmptyIndex ==
    source = "missing" =>
        /\ sanctionsCache = << >>
        /\ result.status = "error" => ~isValidBitcoinAddress(result.address)
        /\ Returned =>
              /\ result.loadOk
              /\ result.index = << >>
              /\ lastLoadTime > 0
              /\ result.sanctionMatches = << >>
              /\ result.riskScore10 = 0
              /\ result.riskLevel = "LOW"

\* C15 witness: an address that the source files list, screened while the
\* source is missing.
C15_Witness ==
    /\ source = "missing"
    /\ Returned
    /\ result.address = "1S"
    /\ lastLoadTime = now


\* C16: a lookup in the sanctions index reads the source if and only if it
\* is the first lookup, the first lookup after clearCache, or
\* now - lastLoadTime > 1 hour; in particular a lookup that follows a load
\* which found the source missing or empty reads nothing until then.
C16_ReadsOnlyWhenExpired ==
    (lastAccess.kind = "find" /\ source # "corrupt") =>
        (lastAccess.read <=>
            \/ lastAccess.first
            \/ lastAccess.at - lastAccess.lastBefore > SanctionsValidityMs)

\* What the code does: the source is read unless the index is both younger
\* than one hour and non-empty.
C16_ReadsUnlessFreshAndNonEmpty ==
    lastAccess.kind = "find" =>
        (lastAccess.read <=>
            \/ lastAccess.at - lastAccess.lastBefore >= SanctionsValidityMs
            \/ lastAccess.emptyBefore)

\* A second lookup, less than one hour after a load that found the source
\* missing or empty, reads the source again.
C16_RereadOfEmptyIndex ==
    /\ lastAccess.kind = "find" /\ source \in {"missing", "F3"}
    /\ ~lastAccess.first
    /\ lastAccess.lastBefore > 0
    /\ lastAccess.at - lastAccess.lastBefore < SanctionsValidityMs
    /\ lastAccess.read


\* C17: audit entries stay retrievable by day: getAuditLogsForDate(d)
\* returns exactly the entries written on day d (none if there are none),
\* on whatever day the query is made.
C17_ByDateReturnsThatDay ==
    (lastQuery.date # 0 /\ ~lastQuery.threw) =>
        lastQuery.entries = lastQuery.stored

\* What the code does: on the day itself the entries are returned, on any
\* other day the list is empty.
C17_ByDateOnlyToday ==
    (lastQuery.date # 0 /\ ~lastQuery.threw) =>
        lastQuery.entries = IF lastQuery.date = lastQuery.today
                            THEN lastQuery.stored ELSE << >>

\* Entries of day 1 asked for on day 2.
C17_LaterDayQuery ==
    /\ lastQuery.date = 1 /\ lastQuery.today = 2 /\ ~lastQuery.threw
    /\ lastQuery.stored # << >>
    /\ lastQuery.entries = << >>


(***************************************************************************)
(* Properties of the validators.                                           *)
(***************************************************************************)
WholeLegacy(s) ==
    /\ Len(s) - 1 \in 25 .. 34
    /\ s[1] \in {"1", "3"}
    /\ \A i \in 2 .. Len(s) : s[i] \in Base58Chars

WholeBech32(s) ==
    /\ Len(s) - 3 \in 39 .. 59
    /\ SubSeq(s, 1, 3) = << "b", "c", "1" >>
    /\ \A i \in 4 .. Len(s) : s[i] \in Bech32Chars


\* A match without the address it echoes.
MatchedEntities(sanctionMatches) ==
    [i \in DOMAIN sanctionMatches |->
        [listSource |-> sanctionMatches[i].listSource,
         entityId |-> sanctionMatches[i].entityId,
         matchType |-> sanctionMatches[i].matchType,
         confidence |-> sanctionMatches[i].confidence]]

\* C18 as stated: for every base58 address a, screenAddress(a.toUpperCase())
\* and screenAddress(a.toLowerCase()) without walk both return, with the
\* same matches.
C18_AsStated ==
    (validation.op = "screen" /\ WholeLegacy(identifier)) =>
        /\ validation.upper.status = "ok"
        /\ validation.lower.status = "ok"
        /\ MatchedEntities(validation.upper.sanctionMatches)
              = MatchedEntities(validation.lower.sanctionMatches)

\* C18: for every base58 address a, the screening of a.toUpperCase() returns
\* unless one of the 25 characters after the first is i or o, that of
\* a.toLowerCase() returns unless one of them is L, and whenever both return
\* they match the same entities, each match echoing the form it was asked.
C18_SameMatchesWhenBothValid ==
    (validation.op = "screen" /\ WholeLegacy(identifier)) =>
        /\ validation.upper.status = "ok" <=>
              \A i \in 2 .. 26 : identifier[i] \notin {"i", "o"}
        /\ validation.lower.status = "ok" <=>
              \A i \in 2 .. 26 : identifier[i] # "L"
        /\ (validation.upper.status = "ok" /\ validation.lower.status = "ok") =>
              /\ MatchedEntities(validation.upper.sanctionMatches)
                    = MatchedEntities(validation.lower.sanctionMatches)
              /\ \A i \in DOMAIN validation.upper.sanctionMatches :
                    validation.upper.sanctionMatches[i].matchedAddress
                        = toUpperCase(identifier)
              /\ \A i \in DOMAIN validation.lower.sanctionMatches :
                    validation.lower.sanctionMatches[i].matchedAddress
                        = toLowerCase(identifier)

\* C18 witness: a sanctioned mixed-case address whose two forms both pass
\* validation and match.
C18_Witness ==
    /\ validation.op = "screen" /\ WholeLegacy(identifier)
    /\ toUpperCase(identifier) # identifier
    /\ toLowerCase(identifier) # identifier
    /\ validation.upper.status = "ok" /\ validation.lower.status = "ok"
    /\ Len(validation.upper.sanctionMatches) > 0

\* C19: isValidBitcoinAddress(s) iff the whole of s is [13] followed by 25 to
\* 34 base58 characters, or bc1 followed by 39 to 59 characters of [a-z0-9];
\* isValidBitcoinTxHash(s) iff s is exactly 64 hexadecimal characters; no
\* string is accepted as both.
C19_WholeStringPatterns ==
    validation.op = "validate" =>
        /\ validation.isAddress <=>
              (WholeLegacy(identifier) \/ WholeBech32(identifier))
        /\ validation.isTxHash <=>
              (Len(identifier) = 64
                 /\ \A i \in 1 .. 64 : identifier[i] \in HexChars)
        /\ ~(validation.isAddress /\ validation.isTxHash)

\* A string of 64 hexadecimal characters that is also taken for an address.
C19_AcceptedAsBoth ==
    /\ validation.op = "validate"
    /\ validation.isAddress /\ validation.isTxHash
    /\ validation.type = "address"

\* The hash pattern and the bech32 alternative do hold as stated.
C19_HashAndBech32 ==
    validation.op = "validate" =>
        /\ validation.isTxHash <=>
              (Len(identifier) = 64
                 /\ \A i \in 1 .. 64 : identifier[i] \in HexChars)
        /\ (Len(identifier) > 0 /\ identifier[1] \notin {"1", "3"}) =>
              (validation.isAddress <=> WholeBech32(identifier))
        /\ (WholeLegacy(identifier) \/ WholeBech32(identifier)) =>
              validation.isAddress


(***************************************************************************)
(* Properties of screenTransaction.                                        *)
(***************************************************************************)
Screened == tResult.inputAddresses \o tResult.outputAddresses

RECURSIVE SumSeq(_)
SumSeq(xs) == IF xs = << >> THEN 0 ELSE Head(xs) + SumSeq(Tail(xs))

\* C20: with at least one screened address, overallRiskScore =
\* clamp(round(avgWeighted + highRiskPenalty), 0, 100), avgWeighted being the
\* average of the riskScores weighted by max(1, matches) * confidence / 100
\* and highRiskPenalty = min(25, 10 * number of HIGH or CRITICAL results);
\* overallRiskLevel is the bucket of the score; results (75, 70, 1 match) and
\* (0, 30, no match) give 63 and HIGH; with no screened address, 0 and LOW.
\* The rounding is stated without division: k = round(x) iff
\* k <= x + 1/2 < k + 1, with x = s / (10 * t) + p.
C20_OverallRiskFormula ==
    (tpc = "done" /\ tResult.status = "ok") =>
        LET W(r) == (IF Len(r.sanctionMatches) > 1
                     THEN Len(r.sanctionMatches) ELSE 1) * r.confidence
            WS(r) == r.riskScore10 * W(r)
            t == SumSeq([i \in DOMAIN Screened |-> W(Screened[i])])
            s == SumSeq([i \in DOMAIN Screened |-> WS(Screened[i])])
            high == {i \in DOMAIN Screened :
                        Screened[i].riskLevel \in {"HIGH", "CRITICAL"}}
            p == IF 10 * Cardinality(high) < 25
                 THEN 10 * Cardinality(high) ELSE 25
            score == tResult.overallRiskScore
        IN  /\ Len(Screened) = 0 =>
                 score = 0 /\ tResult.overallRiskLevel = "LOW"
            /\ Len(Screened) > 0 =>
                 /\ score \in 0 .. 100
                 /\ \E k \in 0 .. 125 :
                       /\ 20 * t * k <= 2 * s + 20 * p * t + 10 * t
                       /\ 2 * s + 20 * p * t + 10 * t < 20 * t * (k + 1)
                       /\ score = IF k > 100 THEN 100 ELSE k
            /\ tResult.overallRiskLevel = Bucket(10 * score)
            /\ (/\ Len(Screened) = 2
                /\ \E i, j \in 1 .. 2 :
                      /\ Screened[i].riskScore10 = 750
                      /\ Screened[i].confidence = 70
                      /\ Len(Screened[i].sanctionMatches) = 1
                      /\ Screened[j].riskScore10 = 0
                      /\ Screened[j].confidence = 30
                      /\ Len(Screened[j].sanctionMatches) = 0)
               => (score = 63 /\ tResult.overallRiskLevel = "HIGH")

\* C20 witness: the example, one sanctioned and one clean address.
C20_Witness ==
    /\ tpc = "done" /\ tResult.status = "ok"
    /\ Len(Screened) = 2
    /\ Len(Screened[1].sanctionMatches) + Len(Screened[2].sanctionMatches) = 1
    /\ tResult.overallRiskScore = 63
    /\ tResult.overallRiskLevel = "HIGH"

\* The penalty cap and the clamp are reached as well.
C20_ClampReached ==
    /\ tpc = "done" /\ tResult.status = "ok"
    /\ Cardinality({i \in DOMAIN Screened :
                       Screened[i].riskLevel \in {"HIGH", "CRITICAL"}}) >= 3
    /\ tResult.overallRiskScore = 100
    /\ tResult.overallRiskLevel = "CRITICAL"


SanctionedAddressesOf(txHash) ==
    LET ld == loadAllSanctions(<< >>, 0, now, source)
        transaction == TxOf(graph, txHash)
    IN  {a \in Range(extractAddressesFromTransaction(transaction)) :
            /\ isValidBitcoinAddress(a)
            /\ ld.ok
            /\ findSanctionsByAddress(ld.cache, a) # << >>}

\* C22: POST /api/screening/transaction screens the transaction through its
\* input and output addresses: for a valid txHash whose transaction has a
\* directly sanctioned input or output address, the reply's data reports
\* that match and a non-zero risk score.
C22_RouteReportsSanctionedTransaction ==
    (/\ httpResponse.route = "transaction"
     /\ httpResponse.status = 200
     /\ \E t \in Graphs[graph].txs : t.txid = httpResponse.data.txHash
     /\ SanctionedAddressesOf(httpResponse.data.txHash) # {})
    => /\ httpResponse.data.sanctionMatches # << >>
       /\ httpResponse.data.riskScore > 0

\* What the handler does: every accepted request gets the same placeholder.
C22_RoutePlaceholder ==
    (httpResponse.route = "transaction" /\ httpResponse.status = 200) =>
        /\ httpResponse.data.sanctionMatches = << >>
        /\ httpResponse.data.riskScore = 0
        /\ httpResponse.data.riskLevel = "LOW"
        /\ httpResponse.data.confidence = 50


(***************************************************************************)
(* Further properties of the walker.                                       *)
(***************************************************************************)
\* C23: within one walk the hop order of a breadth-first expansion is kept:
\* the hops of pathNodes are non-decreasing in discovery order, every
\* transaction of hop h being analyzed before any of hop h + 1 is fetched.
C23_HopOrderIsBreadthFirst ==
    /\ \A an \in Analyses :
          \A i, j \in DOMAIN an.pathNodes :
             i < j => an.pathNodes[i].hop <= an.pathNodes[j].hop
    /\ wpc = "running" =>
          \A i, j \in DOMAIN stack :
             (i < j /\ stack[i].kind \in {"batch", "await", "tx"}
                    /\ stack[j].kind \in {"batch", "await", "tx"})
                => stack[i].hop <= stack[j].hop

\* A returned analysis whose second node is nearer to the target than its
\* first one.
C23_DeeperNodeFirst ==
    /\ wpc = "done" /\ HasAnalysis(walkRet)
    /\ \E i, j \in DOMAIN walkRet.pathNodes :
          i < j /\ walkRet.pathNodes[i].hop > walkRet.pathNodes[j].hop


(***************************************************************************)
(* Further properties of the indexer client's rate limit.                  *)
(***************************************************************************)
\* C24: when getTransaction, getAddressTransactions or getAddressInfo is
\* called while the cap is reached, the error the caller receives is an
\* EXTERNAL_API error whose details carry the current request count and the
\* cap.
C24_RateLimitErrorCarriesCountAndCap ==
    (lastCall.op # "none" /\ ~lastCall.contacted) =>
        /\ lastCall.error = "EXTERNAL_API"
        /\ {"requestCount", "limit"} \subseteq lastCall.details

\* What the caller receives: the error rebuilt by the operation's catch
\* block, with the operation's own details; the count and the cap were on
\* the error thrown by checkRateLimit.
C24_RateLimitErrorRewrapped ==
    (lastCall.op # "none" /\ ~lastCall.contacted) =>
        /\ lastCall.error = "EXTERNAL_API"
        /\ lastCall.thrownDetails = {"requestCount", "limit"}
        /\ lastCall.details = RewrappedDetails(lastCall.op)
        /\ lastCall.details \cap {"requestCount", "limit"} = {}


\* C25: the rate-limit window slides: in any interval of 60 seconds, whatever
\* its start, at most 60 requests are admitted to the indexer.  Checked on
\* the interval that ends now and began one tick (30 seconds) ago.
C25_SlidingWindow ==
    admittedRecent[1] + admittedRecent[2] <= maxRequestsPerMinute

\* What the code keeps: at most 60 admissions between two resets of the
\* counter, a reset happening at the first call more than 60 seconds after
\* the previous reset.
C25_FixedWindow ==
    /\ admittedInWindow <= maxRequestsPerMinute
    /\ admittedRecent[2] <= maxRequestsPerMinute

\* 60 calls admitted just before a reset and 60 just after it.
C25_DoubleBurst ==
    /\ admittedRecent = << maxRequestsPerMinute, maxRequestsPerMinute >>
    /\ lastResetTime = now


(***************************************************************************)
(* Properties of the sanctions index over mixed sources.                   *)
(***************************************************************************)
EntityIds(ents) == {ents[i].entityId : i \in DOMAIN ents}

\* The entityIds of the source rows that are active and carry the address,
\* ignoring case.
ActiveRowIds(src, a) ==
    {r.entityId : r \in {x \in Range(SourceRows(src)) :
                            x.isActive /\ ToLower(x.address) = ToLower(a)}}

\* The entityIds whose FIRST row in the source is active and that carry
\* the address, ignoring case, in any of their rows.
FirstRowActiveIds(src, a) ==
    LET rows == SourceRows(src)
        FirstOf(id) == CHOOSE i \in DOMAIN rows :
                           /\ rows[i].entityId = id
                           /\ \A j \in 1 .. i - 1 : rows[j].entityId # id
    IN  {r.entityId : r \in {x \in Range(rows) :
                                /\ rows[FirstOf(x.entityId)].isActive
                                /\ ToLower(x.address) = ToLower(a)}}

\* C26: only source rows with isActive = true are indexed: after any load,
\* findByAddress(a) returns entity E iff the source has a row with entityId
\* E, isActive = true and address a ignoring case, whatever the order of
\* the rows of that entityId.
C26_OnlyActiveRowsIndexed ==
    (lastAccess.kind = "find" /\ lastAccess.ok) =>
        \A a \in Addr :
            EntityIds(findSanctionsByAddress(sanctionsCache, a))
                = ActiveRowIds(source, a)

\* What the code does: an entity is indexed, with the addresses of all its
\* rows, iff its first row is active.
C26_FirstRowDecides ==
    (lastAccess.kind = "find" /\ lastAccess.ok) =>
        \A a \in Addr :
            EntityIds(findSanctionsByAddress(sanctionsCache, a))
                = FirstRowActiveIds(source, a)

\* An address carried only by an inactive row is matched (active row first).
C26_InactiveRowMatched ==
    /\ lastAccess.kind = "find" /\ lastAccess.ok /\ source = "F4"
    /\ ActiveRowIds(source, "1T") = {}
    /\ EntityIds(findSanctionsByAddress(sanctionsCache, "1T")) = {"E5"}

\* An address carried by an active row is not matched (inactive row first).
C26_ActiveRowMissed ==
    /\ lastAccess.kind = "find" /\ lastAccess.ok /\ source = "F5"
    /\ ActiveRowIds(source, "1A") = {"E5"}
    /\ findSanctionsByAddress(sanctionsCache, "1A") = << >>


(***************************************************************************)
(* Further properties of the walk.                                         *)
(***************************************************************************)
\* The path nodes a step appended to the analysis.
AddedNodes == SubSeq(analysis'.pathNodes, Len(analysis.pathNodes) + 1,
                     Len(analysis'.pathNodes))

\* C27: the walker decides "sanctioned" with the lookup of direct
\* screening: an address A of an analysed transaction, not visited yet, is
\* emitted as a path node iff findSanctionsByAddress(A) is non-empty
\* (ignoring case), and its riskContribution uses the number of entities
\* findSanctionsByAddress(A) returns.
C27_WalkerUsesDirectLookup ==
    [][ (/\ Running("tx")
         /\ analysis'.totalNodesAnalyzed = analysis.totalNodesAnalyzed + 1
         /\ loadAllSanctions(sanctionsCache, lastLoadTime, now, source).ok) =>
            LET tx == TxOf(graph, Top.x)
                found(A) == findSanctionsByAddress(sanctionsCache', A)
            IN  \A A \in Range(extractAddressesFromTransaction(tx))
                            \ visitedAddresses :
                    /\ (\E i \in DOMAIN AddedNodes : AddedNodes[i].address = A)
                           <=> found(A) # << >>
                    /\ \A i \in DOMAIN AddedNodes :
                           AddedNodes[i].address = A =>
                               AddedNodes[i].riskContribution =
                                   calculateRiskContribution(Top.hop + 1,
                                                             Len(found(A)))
      ]_vars

\* What the code does: the walker compares the address with the stored
\* addresses as they are, letter case included.
C27_WalkerComparesExactly ==
    [][ (/\ Running("tx")
         /\ analysis'.totalNodesAnalyzed = analysis.totalNodesAnalyzed + 1
         /\ loadAllSanctions(sanctionsCache, lastLoadTime, now, source).ok) =>
            LET tx == TxOf(graph, Top.x)
                found(A) == findSanctionsByAddressExact(sanctionsCache', A)
            IN  \A A \in Range(extractAddressesFromTransaction(tx))
                            \ visitedAddresses :
                    /\ (\E i \in DOMAIN AddedNodes : AddedNodes[i].address = A)
                           <=> found(A) # << >>
                    /\ \A i \in DOMAIN AddedNodes :
                           AddedNodes[i].address = A =>
                               AddedNodes[i].riskContribution =
                                   calculateRiskContribution(Top.hop + 1,
                                                             Len(found(A)))
      ]_vars

\* A finished walk that analysed a transaction carrying "1s", found no
\* path node, while the direct lookup of "1s" matches an entity.
C27_MissedByCase ==
    /\ wpc = "done" /\ ~walkInfo.fromCache
    /\ graph = 2 /\ source = "F1"
    /\ walkRet.totalNodesAnalyzed = 1
    /\ walkRet.pathNodes = << >>
    /\ findSanctionsByAddress(sanctionsCache, "1s") # << >>


\* s is the tail end of t.
IsSuffix(s, t) ==
    Len(s) <= Len(t) /\ SubSeq(t, Len(t) - Len(s) + 1, Len(t)) = s

IsPrefix(s, t) == Len(s) <= Len(t) /\ SubSeq(t, 1, Len(s)) = s

\* The transactions awaiting analysis at the top of the stack.
RECURSIVE LeadingTx(_)
LeadingTx(st) ==
    IF st = << >> \/ Head(st).kind # "tx" THEN << >>
    ELSE << Head(st).x >> \o LeadingTx(Tail(st))

\* C28: inside a walk a failed fetch of one transaction or of one next-hop
\* address's list is skipped and does not abort the walk.  When a batch
\* settles, the walk goes on, the fetched transactions of the batch are
\* queued for analysis in batch order and all later work (later batches,
\* other next-hop addresses) stays queued; when a next-hop request fails,
\* only that address's work is dropped; the path nodes found so far are
\* never lost and the walk returns them.  (Time may pass while a request is
\* outstanding: the steps meant are those of the walk, in which now stays.)
C28_FailuresAreSkipped ==
    [][ /\ (Running("await") /\ now' = now) =>
              /\ wpc' = "running"
              /\ analysis' = analysis
              /\ IsSuffix(Tail(stack), stack')
              /\ Len(stack') <= Len(Tail(stack)) + Len(Top.ids)
              /\ LET queued == SubSeq(stack', 1, Len(stack') - Len(Tail(stack)))
                     Queued(id) == id \in Range(LeadingTx(queued))
                 IN  /\ \A i \in DOMAIN queued : queued[i].kind = "tx"
                     /\ LeadingTx(queued) = SelectSeq(Top.ids, Queued)
        /\ (Running("addr") /\ now' = now) =>
              /\ wpc' = "running"
              /\ analysis' = analysis
              /\ IsSuffix(Tail(stack), stack')
        /\ (wpc = "running" /\ wpc' \in {"running", "done"}) =>
              IsPrefix(analysis.pathNodes, analysis'.pathNodes)
        /\ (wpc = "running" /\ wpc' = "done") =>
              /\ stack = << >>
              /\ walkRet'.pathNodes = analysis.pathNodes
      ]_vars

\* A walk from 1T with maxHops 1 made its three requests, one of its two
\* transaction fetches failed, and it returned the path nodes of the other.
C28_Witness ==
    /\ wpc = "done" /\ ~walkInfo.fromCache
    /\ graph = 1 /\ walkInfo.key = << "1T", 1 >>
    /\ walkInfo.requests = 3
    /\ walkRet.totalNodesAnalyzed = 1
    /\ Len(walkRet.pathNodes) >= 1


\* C29: within one walk there are never more than 5 transaction fetches in
\* flight, and the batches of a hop are processed one after the other: the
\* fetches outstanding are those of one batch, whose Promise.all the walk
\* is awaiting, and no fetch (of a later batch or of a deeper hop) starts
\* while a fetch is outstanding.
C29_BatchesAreSequential ==
    [][ /\ Len(inFlight') <= maxConcurrentRequests
        /\ inFlight' # << >> =>
              /\ wpc' = "running" /\ stack' # << >>
              /\ Head(stack').kind = "await"
              /\ Head(stack').ids = inFlight'
              /\ \A i \in 2 .. Len(stack') : stack'[i].kind # "await"
        /\ (inFlight' # inFlight /\ inFlight' # << >>) =>
              /\ inFlight = << >>
              /\ Running("batch")
              /\ Range(inFlight') \subseteq Range(Top.ids)
        /\ (walkInfo.key = walkInfo'.key
            /\ walkInfo'.requests > walkInfo.requests) => inFlight = << >>
      ]_vars

\* Five fetches of the first batch are outstanding while the second batch
\* of the same hop is still waiting.
C29_Witness ==
    /\ Len(inFlight) = maxConcurrentRequests
    /\ Running("await")
    /\ Len(stack) >= 2 /\ stack[2].kind = "batch"
    /\ stack[2].hop = Top.hop


(***************************************************************************)
(* Properties of concurrent walks.                                         *)
(***************************************************************************)
BothReturned ==
    /\ \A w \in Walkers : walks[w].pc = "done"
    /\ \E w \in Walkers : walks[w].overlapped

\* C30: two walks for the same (target, maxHops) that run concurrently
\* converge: both return equal analyses and the entry left in the walk
\* cache equals both, in every interleaving, including those where the
\* rate limiter or a fetch failure affects only one of them.
C30_ConcurrentWalksConverge ==
    BothReturned =>
        /\ walks[1].ret = walks[2].ret
        /\ analysisCache[PairKey] = walks[1].ret

\* What the code gives: the cache holds what one of the walks returned, and
\* the walks agree when neither was refused a request nor lost one.
C30_ConvergeWithoutFailures ==
    BothReturned =>
        /\ \E w \in Walkers : analysisCache[PairKey] = walks[w].ret
        /\ (\A w \in Walkers : ~walks[w].sawFailure) =>
               walks[1].ret = walks[2].ret

\* Both walks returned, one found the sanctioned nodes and the other, which
\* lost a fetch, found fewer.
C30_Diverged ==
    /\ BothReturned
    /\ Len(walks[1].ret.pathNodes) > Len(walks[2].ret.pathNodes)
    /\ ~walks[1].sawFailure /\ walks[2].sawFailure


(***************************************************************************)
(* Further properties of screenAddress.                                    *)
(***************************************************************************)
\* The keys logAddressScreening receives for a completed screening.
ResultBagKeys == {"riskScore10", "riskLevel", "sanctionMatchCount"}

\* C31: when the walk fails inside screenAddress(includeWalk = true), the
\* audit entry written for the request has success = true and its result
\* bag records the walker failure: the bag carries something beyond the
\* score, the level and the match count of the result.
C31_AuditRecordsWalkFailure ==
    (Returned /\ result.includeWalk /\ result.walkFailed /\ lastAudit.written) =>
        /\ lastAudit.success
        /\ DOMAIN lastAudit.result # ResultBagKeys

\* What the code writes: a success entry whose bag is the one of a
\* screening without a walk.
C31_AuditSilentOnWalkFailure ==
    (Returned /\ result.includeWalk /\ result.walkFailed /\ lastAudit.written) =>
        lastAudit = SuccessAudit(
                        ScreeningResult(result.address, result.sanctionMatches,
                                        NoAnalysis), TRUE)

\* The walk failed and the entry was written.
C31_WalkFailedAndLogged ==
    /\ Returned /\ result.includeWalk /\ result.walkFailed
    /\ lastAudit.written /\ lastAudit.success


\* C32 as stated: a walk with maxHops = 0 returns the empty analysis for
\* every target and every indexer behaviour.
C32_AsStated ==
    (walkInfo.key[2] = 0 /\ walkInfo.key[1] # "none"
     /\ wpc \in {"done", "failed"}) =>
        /\ wpc = "done"
        /\ walkRet = EmptyAnalysis(walkInfo.key[1], 0)

\* C32 (amended): a walk with maxHops = 0 that obtains the target's
\* transaction list returns the empty analysis (nothing analysed, no node,
\* riskPropagation 0) after that single request; it fails only when that
\* request fails.
C32_ZeroHopsEmptyAnalysis ==
    (walkInfo.key[2] = 0 /\ walkInfo.key[1] # "none") =>
        /\ wpc = "done" =>
              /\ walkRet = EmptyAnalysis(walkInfo.key[1], 0)
              /\ walkInfo.requests = IF walkInfo.fromCache THEN 0 ELSE 1
        /\ wpc = "failed" => (stack = << >> /\ walkInfo.requests = 1)
        /\ wpc = "running" => walkInfo.requests = 1

\* A walk with maxHops = 0 from an address that has transactions paying to
\* sanctioned addresses returned, not from the cache.
C32_Witness ==
    /\ wpc = "done" /\ ~walkInfo.fromCache
    /\ walkInfo.key = << "1T", 0 >> /\ graph = 1 /\ source = "F1"
    /\ walkRet.pathNodes = << >> /\ walkRet.totalNodesAnalyzed = 0


(***************************************************************************)
(* Properties of the address route.                                        *)
(***************************************************************************)
\* The route called screenAddress with the walker switched on.
WalkerStartedByRoute ==
    /\ httpResponse.route = "address"
    /\ httpResponse.status = 200
    /\ httpResponse.call.includeTransactionAnalysis

\* C33: the path walker is only ever started with an integer maxHops in
\* [1,10]: a request whose maxHops is 0, negative or above 10 is rejected
\* with a validation error or clamped into [1,10] before the walker runs.
C33_WalkerMaxHopsInRange ==
    WalkerStartedByRoute => httpResponse.call.maxHops \in 1 .. 10

\* What the route does: values below 0 and above 10 are rejected, an absent
\* value becomes the default, and 0 is passed on as it is.
C33_ZeroPassesThrough ==
    /\ WalkerStartedByRoute => httpResponse.call.maxHops \in 0 .. 10
    /\ (httpResponse.route = "address" /\ httpResponse.status = 200) =>
           httpResponse.call.maxHops =
               IF httpResponse.body.maxHops.given
               THEN httpResponse.body.maxHops.value ELSE defaultMaxHops

\* The walker is started with maxHops = 0.
C33_WalkerStartedWithZero ==
    WalkerStartedByRoute /\ httpResponse.call.maxHops = 0


\* A returned screening with a walk from a target that has no direct match,
\* whose analysis has exactly one path node, at hop 2.
OneNodeAtHopTwo ==
    /\ Returned /\ result.includeWalk
    /\ HasAnalysis(result.transactionAnalysis)
    /\ result.sanctionMatches = << >>
    /\ Len(result.transactionAnalysis.pathNodes) = 1
    /\ result.transactionAnalysis.pathNodes[1].hop = 2

\* C34 as stated: in that case the node's riskContribution is 60,
\* riskPropagation = 65, riskScore = 39, riskLevel = MEDIUM and
\* sanctionedNodesFound = 1.
C34_AsStated ==
    OneNodeAtHopTwo =>
        /\ result.transactionAnalysis.pathNodes[1].riskContribution = 60
        /\ result.transactionAnalysis.riskPropagation = 65
        /\ result.riskScore10 = 390
        /\ result.riskLevel = "MEDIUM"
        /\ result.transactionAnalysis.sanctionedNodesFound = 1

\* C34 (amended): the riskContribution of every emitted node is
\* min(100, max(0, 100 - 20*hop) + min(50, 25*matchCount)) with
\* matchCount >= 1 the number of entities holding the address, and the walk
\* adds 0.6 * riskPropagation to the score (capped at 100).  For exactly one
\* node, at hop 2, from a target with no direct match: riskContribution is
\* 85 for one match (100 for two), riskPropagation = riskContribution + 5
\* capped at 100, riskScore = 0.6 * riskPropagation (54 for one match,
\* riskLevel HIGH) and sanctionedNodesFound = 1.
C34_WalkRiskFormula ==
    (Returned /\ result.includeWalk
     /\ HasAnalysis(result.transactionAnalysis)) =>
        LET an == result.transactionAnalysis
            index == loadAllSanctions(<< >>, 0, now, source).cache
            matchCount(a) == WalkerMatchCount(index, a)
        IN  /\ \A i \in DOMAIN an.pathNodes :
                  /\ matchCount(an.pathNodes[i].address) >= 1
                  /\ an.pathNodes[i].riskContribution =
                        Min(100, Max(0, 100 - 20 * an.pathNodes[i].hop)
                                 + Min(50, 25 * matchCount(an.pathNodes[i].address)))
            /\ result.riskScore10 =
                  Min(1000, 10 * calculateDirectMatchRiskScore(result.sanctionMatches)
                            + 6 * an.riskPropagation)
            /\ OneNodeAtHopTwo =>
                  /\ an.pathNodes[1].riskContribution =
                        IF matchCount(an.pathNodes[1].address) = 1 THEN 85 ELSE 100
                  /\ an.riskPropagation =
                        Min(100, an.pathNodes[1].riskContribution + 5)
                  /\ result.riskScore10 = 6 * an.riskPropagation
                  /\ matchCount(an.pathNodes[1].address) = 1 =>
                        (result.riskScore10 = 540 /\ result.riskLevel = "HIGH")
                  /\ an.sanctionedNodesFound = 1

\* One sanctioned node, at hop 2, held by one entity.
C34_Witness ==
    /\ OneNodeAtHopTwo
    /\ result.transactionAnalysis.pathNodes[1].riskContribution = 85
    /\ result.transactionAnalysis.riskPropagation = 90
    /\ result.riskScore10 = 540


(***************************************************************************)
(* Further properties of screenTransaction.                                *)
(***************************************************************************)
TxReturned == tpc = "done" /\ tResult.status = "ok"

\* min(100, round(60 + 20 * screened/total + 20 * avgConfidence/100)) for
\* screened > 0 results whose confidences sum to sumConfidence, the ratio
\* being 1 when total = 0.
ConfidenceOf(screened, total, sumConfidence) ==
    IF total = 0
    THEN Min(100, (800 * screened + 2 * sumConfidence + 5 * screened)
                  \div (10 * screened))
    ELSE Min(100, (600 * total * screened + 200 * screened * screened
                   + 2 * total * sumConfidence + 5 * total * screened)
                  \div (10 * total * screened))

\* C35: confidence = min(100, round(60 + 20*completenessRatio
\* + 20*avgPerResultConfidence/100)) where completenessRatio is the number
\* of addresses screened successfully over the number of addresses that
\* were to be screened for the requested direction, so that the ratio is 1
\* when every requested address was screened, for each direction.
C35_ConfidenceOverRequested ==
    TxReturned =>
        LET all == tResult.inputAddresses \o tResult.outputAddresses
            requested == Len(treq.inputAddresses) + Len(treq.outputAddresses)
        IN  Len(all) > 0 =>
                tResult.confidence
                    = ConfidenceOf(Len(all), requested, SumConfidence(all))

\* What the code computes: the ratio is taken over all input and output
\* addresses of the transaction, whatever the direction, and a screening
\* without any result has confidence 30.
C35_ConfidenceOverWholeTransaction ==
    TxReturned =>
        LET all == tResult.inputAddresses \o tResult.outputAddresses
            total == Len(extractInputAddresses(treq.transaction))
                     + Len(extractOutputAddresses(treq.transaction))
        IN  tResult.confidence
                = IF Len(all) = 0 THEN 30
                  ELSE ConfidenceOf(Len(all), total, SumConfidence(all))

\* direction = incoming, every input address screened, and the confidence
\* is below the one of a completeness ratio of 1.
C35_IncomingNotComplete ==
    /\ TxReturned /\ tResult.direction = "incoming"
    /\ Len(tResult.inputAddresses) = Len(treq.inputAddresses)
    /\ Len(tResult.inputAddresses) > 0
    /\ tResult.confidence
         < ConfidenceOf(Len(tResult.inputAddresses), Len(treq.inputAddresses),
                        SumConfidence(tResult.inputAddresses))


AddressRejected ==
    result.status = "error" /\ ~isValidBitcoinAddress(result.address)

\* C36: screenAddress on a string that fails the address-format validation
\* fails with a VALIDATION-kind error, the kind screenTransaction raises for
\* a malformed hash.
C36_AddressErrorIsValidation ==
    AddressRejected => result.kind = "VALIDATION"

\* What the code does: screenAddress throws a plain Error, ...
C36_AddressErrorIsPlain ==
    AddressRejected => result.kind = "ERROR"

\* ... screenTransaction throws a ValidationError and has made no indexer
\* request and no sanctions lookup by then, ...
C36_TxErrorIsValidation ==
    (tpc = "done" /\ tResult.status = "error"
       /\ ~isValidBitcoinTxHash(tResult.txHash))
        => /\ tResult.kind = "VALIDATION"
           /\ treq.requests = 0 /\ treq.lookups = 0 /\ treq.walks = 0

\* ... and the step that rejects an address touches neither the sanctions
\* index nor the walker.
C36_RejectedBeforeLookup ==
    [][(result' # result /\ result'.status = "error")
         => UNCHANGED << sancVars, walkVars, rateVars >>]_vars

C36_AddressRejectedPlain ==
    AddressRejected /\ result.kind = "ERROR"


WalkInRange == spc = "walking" /\ req.maxHops >= 1

\* The tasks a step has put on top of the stack in place of its own.
PushedTasks == SubSeq(stack', 1, Len(stack') - Len(stack) + 1)

\* Every analyzeHop call, running or pending, is nested at most maxHops deep.
DepthWithinMaxHops ==
    (WalkInRange /\ wpc = "running") =>
        \A i \in DOMAIN stack : stack[i].hop + 1 <= req.maxHops

\* One analyzeHop call hands at most 10 txids to its batches.
HopProcessesAtMostTen ==
    (WalkInRange /\ Running("hop")) =>
        /\ \A i \in DOMAIN PushedTasks : PushedTasks[i].kind = "batch"
        /\ Len(Flatten([i \in DOMAIN PushedTasks |-> PushedTasks[i].ids])) <= 10

\* One transaction opens at most 3 next-hop addresses.
TxExpandsAtMostThree ==
    (WalkInRange /\ Running("tx")) =>
        /\ Len(PushedTasks) <= 3
        /\ \A i \in DOMAIN PushedTasks :
              PushedTasks[i].kind = "addr" /\ PushedTasks[i].x \notin visitedAddresses

\* C37: for maxHops >= 1 and every graph, cycles included, a walk that has
\* started eventually returns or fails when every indexer call settles; the
\* recursion is never deeper than maxHops, an analyzeHop call processes at
\* most 10 transactions and expands at most 3 new addresses per transaction.
C37_WalkTerminatesWithinBounds ==
    /\ (WalkInRange /\ wpc \in {"seeding", "running"})
          ~> (wpc \in {"done", "failed"})
    /\ []DepthWithinMaxHops
    /\ [][HopProcessesAtMostTen /\ TxExpandsAtMostThree]_vars

\* A walk of two hops over the cycle has returned: 10 of the target's 11
\* transactions were fetched and 3 of the 4 new addresses of x1 opened.
C37_Witness ==
    /\ WalkInRange /\ wpc = "done" /\ ~walkInfo.fromCache
    /\ req.address = "1T" /\ req.maxHops = 2
    /\ Len(Graphs[graph].addrTxs[req.address]) > 10
    /\ {"x1", "x10", "x12"} \subseteq visitedTransactions
    /\ "x11" \notin visitedTransactions
    /\ visitedAddresses = {"1T", "1A", "1S", "1M"}


TxOk(r) == r.status = "ok"

\* C38: screenTransactionsBatch screens its transactions strictly one
\* after another and skips failures: a call is only in progress for the
\* transaction at the loop's position, every transaction before it has
\* settled, the output holds exactly the results of the calls that
\* succeeded, in input order, and a failure never ends the batch before
\* the last transaction.
C38_SequentialAndSkipsFailures ==
    /\ txBatch.pc # "failed"
    /\ txBatch.pc \in {"running", "done"} =>
          /\ Len(txBatch.settled) = txBatch.next - 1
          /\ \A i \in DOMAIN txBatch.settled :
                txBatch.settled[i].txHash = txBatch.txHashes[i]
          /\ txBatch.results = SelectSeq(txBatch.settled, TxOk)
          /\ tpc # "idle" =>
                /\ TxBatchPending
                /\ treq.txHash = txBatch.txHashes[txBatch.next]
                /\ treq.direction = txBatch.direction
    /\ txBatch.pc = "done" =>
          /\ tpc = "idle"
          /\ Len(txBatch.settled) = Len(txBatch.txHashes)

\* A batch of three has returned two results: the second transaction failed
\* and the third was screened all the same.
C38_Witness ==
    /\ txBatch.pc = "done"
    /\ Len(txBatch.txHashes) = 3
    /\ TxOk(txBatch.settled[1])
    /\ ~TxOk(txBatch.settled[2])
    /\ TxOk(txBatch.settled[3])
    /\ Len(txBatch.results) = 2
    /\ txBatch.results[2].txHash = txBatch.txHashes[3]


HasDirectMatch(r) == r.sanctionMatches # << >>
IsUnsanctioned(r) == r.sanctionMatches = << >>
TxAddressResults == tResult.inputAddresses \o tResult.outputAddresses

\* C39: when at least one screened input or output address has a direct
\* sanction match, overallRiskLevel is never LOW, however many unsanctioned
\* addresses the transaction has.
C39_AsStated ==
    (TxReturned /\ SelectSeq(TxAddressResults, HasDirectMatch) # << >>)
        => tResult.overallRiskLevel # "LOW"

\* C39 without "however many": the level is not LOW as long as at most 8
\* of the screened addresses are unsanctioned.
C39_NotLowUpToEightClean ==
    (/\ TxReturned
     /\ SelectSeq(TxAddressResults, HasDirectMatch) # << >>
     /\ Len(SelectSeq(TxAddressResults, IsUnsanctioned)) <= 8)
        => tResult.overallRiskLevel # "LOW"

\* One sanctioned input among 8 unsanctioned address results: MEDIUM.
C39_Witness ==
    /\ TxReturned
    /\ Len(SelectSeq(TxAddressResults, HasDirectMatch)) = 1
    /\ Len(SelectSeq(TxAddressResults, IsUnsanctioned)) = 8
    /\ tResult.overallRiskLevel = "MEDIUM"

\* One sanctioned input among 9 unsanctioned address results: LOW.
C39_Diluted ==
    /\ TxReturned
    /\ Len(SelectSeq(TxAddressResults, HasDirectMatch)) = 1
    /\ Len(SelectSeq(TxAddressResults, IsUnsanctioned)) = 9
    /\ tResult.overallRiskScore = 25
    /\ tResult.overallRiskLevel = "LOW"


WalkHasAnalysis == wpc \in {"running", "done"} /\ ~walkInfo.fromCache

\* C40: within one walk every sanctioned address is reported at most once
\* and the target is never reported: pathNodes holds no two nodes with the
\* same address and no node with the target's address, so that
\* sanctionedNodesFound counts distinct sanctioned addresses.
C40_NodesDistinctAndNotTarget ==
    WalkHasAnalysis =>
        /\ \A i, j \in DOMAIN analysis.pathNodes :
              analysis.pathNodes[i].address = analysis.pathNodes[j].address
                  => i = j
        /\ \A i \in DOMAIN analysis.pathNodes :
              analysis.pathNodes[i].address # req.address
        /\ analysis.sanctionedNodesFound
             = Cardinality({analysis.pathNodes[i].address :
                               i \in DOMAIN analysis.pathNodes})

\* What the code guarantees: the target is never reported, an address
\* already opened as a next hop is not reported afterwards, and a
\* transaction is analysed once, so that no two nodes share address and
\* txid.
C40_TargetNeverReported ==
    WalkHasAnalysis =>
        /\ \A i \in DOMAIN analysis.pathNodes :
              analysis.pathNodes[i].address # req.address
        /\ \A i, j \in DOMAIN analysis.pathNodes :
              (/\ analysis.pathNodes[i].address = analysis.pathNodes[j].address
               /\ analysis.pathNodes[i].txid = analysis.pathNodes[j].txid)
                  => i = j

\* A returned walk reports the same sanctioned address in two nodes, found
\* in two transactions, and counts it twice.
C40_ReportedTwice ==
    /\ wpc = "done" /\ ~walkInfo.fromCache
    /\ \E i, j \in DOMAIN walkRet.pathNodes :
          /\ i # j
          /\ walkRet.pathNodes[i].address = walkRet.pathNodes[j].address
          /\ walkRet.pathNodes[i].txid # walkRet.pathNodes[j].txid
    /\ walkRet.sanctionedNodesFound
         > Cardinality({walkRet.pathNodes[i].address :
                           i \in DOMAIN walkRet.pathNodes})

=============================================================================
